---------------------------- MODULE Spec2Model ----------------------------
(***************************************************************************)
(* Note-transfer protocol of flstudio-mcp: the encoder (send_melody), the  *)
(* receiver state machines of the FL Studio controller scripts (OnMidiMsg) *)
(* and the recording scheduler (record_notes_batch).                       *)
(*                                                                         *)
(* Lengths and positions are beats held as integers in hundredths of a     *)
(* beat (1.0 beat = 100).  Waits are whole milliseconds.  host_tempo is    *)
(* the integer mixer.getCurrentTempo() returns (bpm * 1000), a whole       *)
(* number of bpm.                                                          *)
(***************************************************************************)
EXTENDS Integers, Sequences, FiniteSets, TLC

VARIABLES
    script,            \* the controller script loaded in the host
    note_value,        \* event.data1 of the last note-on handled
    fed,               \* every symbol delivered to OnMidiMsg so far
    note_count, values_received, midi_data,
    receiving_mode, midi_notes_array,                          \* device_test.py
    receive_mode, solo_notes, chord_notes,                     \* bebop_controller.py
    changing_setting, setting_type, settings, has_generator,
    pc,                \* position of the script's single thread
    in_handler,        \* an OnMidiMsg call has not returned yet
    current_pattern_index,
    notes_array, channel_index, is_multi_channel,              \* record_notes_batch
    positions, position_groups, gi, seconds_to_wait,
    visited,           \* the groups the loop has entered: <<position, notes>>
    calls,             \* record_notes_batch invocations so far
    exception,         \* the exception that left the last handler, or "none"
    playing, recording, song_pos,                              \* the host transport
    mixer_available, host_tempo, ppq, selected_channel,        \* other host state
    pattern_count,
    log,               \* host calls of the current or last scheduler run
    encoder,           \* which sender runs: "trigger" or "live"
    notes_data, enc_pc, notes, enc_midi_data, enc_i,           \* send_melody
    sent,              \* every symbol sent so far
    chan,              \* symbols sent and not yet handled by the script
    result,            \* what the sender returned
    midi_monitor,      \* live_bebop_mcp_server.py: the global is not None
    monitoring, current_notes, last_chord, last_change_time,
    pending,           \* messages on the input port not yet taken
    now,               \* time.time() of the monitor thread, in milliseconds
    mon_pc,            \* position of the monitor thread
    mon_i,             \* symbols the chord callback has sent of its frame
    tool_pc,           \* position of the thread that runs the server's tools
    tool_i,            \* symbols the manual tool has sent of its frame
    join_deadline,     \* when monitor_thread.join(timeout=1.0) gives up
    keys,              \* messages the keyboard has sent so far
    callbacks          \* chord callbacks invoked so far

rcvVars   == <<script, note_value, fed, note_count, values_received,
               midi_data, receiving_mode, midi_notes_array, receive_mode,
               solo_notes, chord_notes, changing_setting, setting_type, settings,
               has_generator>>
schedVars == <<pc, in_handler, current_pattern_index, notes_array, channel_index, is_multi_channel, positions,
               position_groups, gi, seconds_to_wait, visited, calls, exception>>
hostState == <<playing, recording, song_pos, mixer_available, host_tempo, ppq,
               selected_channel, pattern_count>>
hostVars  == <<hostState, log>>
liveVars  == <<midi_monitor, monitoring, current_notes, last_chord,
               last_change_time, pending, now, mon_pc, mon_i, tool_pc, tool_i,
               join_deadline, keys, callbacks>>
senderVars == <<encoder, notes_data, enc_pc, notes, enc_midi_data, enc_i, sent, chan, result>>
encVars   == <<senderVars, liveVars>>
vars      == <<rcvVars, schedVars, hostVars, encVars>>

(***************************************************************************)
(* Bounds of the model.                                                    *)
(***************************************************************************)
\* symbols fed to a receiver in one behaviour of the free-feed specification
MaxFed == 10
\* lines in an exhaustively enumerated encoder input
MaxLines == 2
\* symbols in flight between the encoder and the receiver
ChanCap == 1
\* records in a batch handed directly to the scheduler
MaxBatch == 3
\* the most client calls whose symbols are queued for bebop_controller.py
MaxSegments == 3

(***************************************************************************)
(* Python helpers.                                                         *)
(***************************************************************************)
Min(a, b) == IF a < b THEN a ELSE b
Max(a, b) == IF a > b THEN a ELSE b

\* round(x / 10.0) for an integer x >= 0: Python rounds half to even
RoundDiv10(x) ==
    LET q == x \div 10
        r == x % 10
    IN  IF r < 5 THEN q
        ELSE IF r > 5 THEN q + 1
        ELSE IF q % 2 = 0 THEN q ELSE q + 1

SeqRange(s) == {s[i] : i \in 1..Len(s)}


(***************************************************************************)
(* Protocol constants.                                                     *)
(***************************************************************************)
START_SENTINEL == 0
END_SENTINEL   == 127
VALUES_PER_NOTE == 6
RECORD_SOLO_NOTE == 10

(***************************************************************************)
(* Encoder: trigger.send_melody (bebop_mcp_server.send_melody sends the    *)
(* same symbols) and RealTimeMIDIMonitor.send_to_fl_studio.                *)
(* A line of notes_data is <<note, velocity, length, position>> or, when   *)
(* it does not split into four numbers, <<>>.                              *)
(***************************************************************************)
ParseLine(line) ==
    <<Min(127, Max(0, line[1])), Min(127, Max(0, line[2])),
      Max(0, line[3]), Max(0, line[4])>>

\* the notes list: the lines that split into four numbers, clamped, in order
ParseNotes(lines) ==
    LET valid == SelectSeq(lines, LAMBDA l : Len(l) = 4)
    IN  [i \in 1..Len(valid) |-> ParseLine(valid[i])]

\* length_whole = min(127, int(length))
WholePart(h) == Min(127, h \div 100)
\* the rounded tenths without the reduction modulo 10
DecimalPartNoWrap(h) == RoundDiv10(h - 100 * WholePart(h))

\* length_decimal = int(round((length - length_whole) * 10)) % 10
DecimalPart(h) == RoundDiv10(h - 100 * WholePart(h)) % 10

EncodeNote(n) ==
    <<Min(127, Max(0, n[1])), Min(127, Max(0, n[2])),
      WholePart(n[3]), DecimalPart(n[3]),
      WholePart(n[4]), DecimalPart(n[4])>>

\* the midi_data array: six values for every note of the list, all of them
BuildMidiData(ns) ==
    [k \in 1..(VALUES_PER_NOTE * Len(ns)) |->
        EncodeNote(ns[((k - 1) \div VALUES_PER_NOTE) + 1])[((k - 1) % VALUES_PER_NOTE) + 1]]

\* the COUNT symbol
CountSymbol(ns) == Min(127, Len(ns))

Emit(sym) ==
    /\ Len(chan) < ChanCap
    /\ chan' = Append(chan, sym)
    /\ sent' = Append(sent, sym)

\* a call that goes on to send without a look at the notes list
EncCallNoCheck ==
    /\ UNCHANGED <<rcvVars, schedVars, hostVars>>
    /\ enc_pc = "call"
    /\ LET ns == IF encoder = "live" THEN notes_data ELSE ParseNotes(notes_data)
       IN  /\ notes' = ns
           /\ enc_midi_data' = BuildMidiData(ns)
           /\ enc_pc' = "start"
           /\ UNCHANGED result
    /\ UNCHANGED <<liveVars, encoder, notes_data, enc_i, sent, chan>>

\* send_melody up to the first send: parse, refuse an empty list, build midi_data.
\* send_to_fl_studio takes the note list as it is and refuses nothing.
EncCall ==
    /\ UNCHANGED <<rcvVars, schedVars, hostVars>>
    /\ enc_pc = "call"
    /\ LET ns == IF encoder = "live" THEN notes_data ELSE ParseNotes(notes_data)
       IN  IF encoder /= "live" /\ ns = <<>>
           THEN /\ notes' = ns
                /\ enc_midi_data' = <<>>
                /\ result' = [ok |-> FALSE, notes |-> 0, values |-> 0]
                /\ enc_pc' = "done"
           ELSE /\ notes' = ns
                /\ enc_midi_data' = BuildMidiData(ns)
                /\ enc_pc' = "start"
                /\ UNCHANGED result
    /\ UNCHANGED <<liveVars, encoder, notes_data, enc_i, sent, chan>>

\* send_midi_note(0)
EncSendStart ==
    /\ UNCHANGED <<rcvVars, schedVars, hostVars>>
    /\ enc_pc = "start"
    /\ Emit(START_SENTINEL)
    /\ enc_pc' = "count"
    /\ UNCHANGED <<liveVars, encoder, notes_data, notes, enc_midi_data, enc_i, result>>

\* send_midi_note(min(127, len(notes)))
EncSendCount ==
    /\ UNCHANGED <<rcvVars, schedVars, hostVars>>
    /\ enc_pc = "count"
    /\ Emit(CountSymbol(notes))
    /\ enc_pc' = "data"
    /\ enc_i' = 1
    /\ UNCHANGED <<liveVars, encoder, notes_data, notes, enc_midi_data, result>>

\* for value in midi_data: send_midi_note(value)
EncSendValue ==
    /\ UNCHANGED <<rcvVars, schedVars, hostVars>>
    /\ enc_pc = "data"
    /\ enc_i <= Len(enc_midi_data)
    /\ Emit(enc_midi_data[enc_i])
    /\ enc_i' = enc_i + 1
    /\ UNCHANGED <<liveVars, encoder, notes_data, notes, enc_midi_data, enc_pc, result>>

\* send_midi_note(127); send_melody then returns its message, which reports
\* len(notes) and len(midi_data); send_to_fl_studio goes on to send note 10
EncSendEnd ==
    /\ UNCHANGED <<rcvVars, schedVars, hostVars>>
    /\ enc_pc = "data"
    /\ enc_i > Len(enc_midi_data)
    /\ Emit(END_SENTINEL)
    /\ IF encoder = "live"
       THEN enc_pc' = "record" /\ UNCHANGED result
       ELSE /\ enc_pc' = "done"
            /\ result' = [ok |-> TRUE, notes |-> Len(notes),
                          values |-> Len(enc_midi_data)]
    /\ UNCHANGED <<liveVars, encoder, notes_data, notes, enc_midi_data, enc_i>>

\* send_to_fl_studio: self._send_midi_note(10), return True
EncSendRecord ==
    /\ UNCHANGED <<rcvVars, schedVars, hostVars>>
    /\ enc_pc = "record"
    /\ Emit(RECORD_SOLO_NOTE)
    /\ enc_pc' = "done"
    /\ result' = [ok |-> TRUE, notes |-> Len(notes), values |-> Len(enc_midi_data)]
    /\ UNCHANGED <<liveVars, encoder, notes_data, notes, enc_midi_data, enc_i>>

Encoder ==
    \/ EncCall
    \/ EncSendStart
    \/ EncSendCount
    \/ EncSendValue
    \/ EncSendEnd
    \/ EncSendRecord

(***************************************************************************)
(* Scheduler: record_notes_batch of device_test.py, bebop_script.py and    *)
(* bebop_controller.py (with _record_notes_at_position), and               *)
(* record_melody_and_chords.  A note is <<note, velocity, length,          *)
(* position>>, with a fifth element, the channel, in multi-channel mode.   *)
(***************************************************************************)
MELODY_CHANNEL == 0
CHORD_CHANNEL  == 1
MAX_WAIT_TIME  == 30
DEFAULT_TEMPO_DEVICE_TEST == 120
SETTLE_MS == 200

Cmd(op, a, b, c) == [op |-> op, a |-> a, b |-> b, c |-> c]

\* sorted(notes_array, key=lambda x: x[3]): ascending by position and stable,
\* so the note at index i lands after the notes at an earlier position and
\* after the notes at its own position that precede it in the list
SortRank(arr, i) ==
    1 + Cardinality({j \in 1..Len(arr) :
                        \/ arr[j][4] < arr[i][4]
                        \/ arr[j][4] = arr[i][4] /\ j < i})

SortByPosition(arr) ==
    LET rank == [i \in 1..Len(arr) |-> SortRank(arr, i)]
    IN  [k \in 1..Len(arr) |-> arr[CHOOSE i \in 1..Len(arr) : rank[i] = k]]

\* a grouping that assigns instead of appending: the last note at a position
\* replaces the ones before it
GroupByPositionLastOnly(sorted) ==
    [p \in {sorted[i][4] : i \in 1..Len(sorted)} |->
        LET at == SelectSeq(sorted, LAMBDA n : n[4] = p)
        IN  <<at[Len(at)]>>]

\* position_groups: the dict from a position to the notes at it, in list order
GroupByPosition(sorted) ==
    [p \in {sorted[i][4] : i \in 1..Len(sorted)} |->
        SelectSeq(sorted, LAMBDA n : n[4] = p)]

\* the keys sorted with reverse=True: latest position first
SortedKeysDescending(S) ==
    [k \in 1..Cardinality(S) |->
        CHOOSE x \in S : Cardinality({y \in S : y > x}) = k - 1]

\* sorted(position_groups.keys())
SortedKeys(S) ==
    [k \in 1..Cardinality(S) |->
        CHOOSE x \in S : Cardinality({y \in S : y < x}) = k - 1]

\* the length of the first note of the group instead of the longest
FirstLength(g) == g[1][3]

\* max(note[2] for note in notes_at_position)
MaxLength(g) ==
    CHOOSE m \in {g[i][3] : i \in 1..Len(g)} : \A i \in 1..Len(g) : g[i][3] <= m

\* the sleep, in ms, for a longest note of h hundredths of a beat at a tempo
\* of t bpm: (max_length * 60) / tempo seconds
WaitMs(h, t) == (h * 600) \div t

\* bebop_controller only: if seconds_to_wait > MAX_WAIT_TIME, wait MAX_WAIT_TIME
ClampWait(h, t) ==
    IF h * 600 > MAX_WAIT_TIME * 1000 * t THEN MAX_WAIT_TIME * 1000
    ELSE WaitMs(h, t)

\* the wait each script computes
SecondsToWait(h, t) ==
    IF script = "bebop_controller" THEN ClampWait(h, t) ELSE WaitMs(h, t)

\* tempo = mixer.getCurrentTempo() / 1000, or the fallback when the mixer
\* module or the call is missing; the host's tempo is a whole number of bpm
FallbackTempo ==
    IF script = "device_test" THEN DEFAULT_TEMPO_DEVICE_TEST
    ELSE settings.tempo

CurrentTempo == IF mixer_available THEN host_tempo \div 1000 ELSE FallbackTempo

\* the tick nearest to position * ppq
PositionTicksNearest(p) == (p * ppq + 50) \div 100

\* position_ticks = int(position * ppq)
PositionTicks(p) == (p * ppq) \div 100

\* every note on the channel of the call, the tag of the note ignored
NoteChannelOfCall(n) ==
    IF script = "device_test" THEN selected_channel ELSE channel_index

\* the channel a note of the group sounds on
NoteChannel(n) ==
    IF is_multi_channel THEN n[5]
    ELSE IF script = "device_test" THEN selected_channel
    ELSE channel_index

NoteOns(g)  == [i \in 1..Len(g) |-> Cmd("midiNoteOn", NoteChannel(g[i]), g[i][1], g[i][2])]

\* a note-off loop that stops after the first note of the group
NoteOffsFirstOnly(g) == <<Cmd("midiNoteOn", NoteChannel(g[1]), g[1][1], 0)>>

NoteOffs(g) == [i \in 1..Len(g) |-> Cmd("midiNoteOn", NoteChannel(g[i]), g[i][1], 0)]

\* the host calls of a group with the transport started before the playhead
\* is moved
StartCommandsStartFirst(g, ticks) ==
    (IF playing THEN <<Cmd("stop", 0, 0, 0)>> ELSE <<>>)
        \o <<Cmd("start", 0, 0, 0), Cmd("setSongPos", ticks, 2, 0)>>
        \o (IF ~recording THEN <<Cmd("record", 0, 0, 0)>> ELSE <<>>)
        \o NoteOns(g)

\* the host calls of a group without the stop of a playing transport
StartCommandsNoStop(g, ticks) ==
    <<Cmd("setSongPos", ticks, 2, 0)>>
        \o (IF ~recording THEN <<Cmd("record", 0, 0, 0)>> ELSE <<>>)
        \o <<Cmd("start", 0, 0, 0)>>
        \o NoteOns(g)

\* the host calls of a group up to the sleep: stop if playing, move the
\* playhead, record if not recording, start, a note-on for every note
StartCommands(g, ticks) ==
    (IF playing THEN <<Cmd("stop", 0, 0, 0)>> ELSE <<>>)
        \o <<Cmd("setSongPos", ticks, 2, 0)>>
        \o (IF ~recording THEN <<Cmd("record", 0, 0, 0)>> ELSE <<>>)
        \o <<Cmd("start", 0, 0, 0)>>
        \o NoteOns(g)

\* the sleep and the host calls of a group after it: a note-off for every
\* note, stop, record if recording
EndCommands(g) ==
    <<Cmd("sleep", seconds_to_wait, 0, 0)>>
        \o NoteOffs(g)
        \o <<Cmd("stop", 0, 0, 0)>>
        \o (IF recording THEN <<Cmd("record", 0, 0, 0)>> ELSE <<>>)

\* the scheduler's locals once the loop over the positions is entered:
\* sorted_notes, position_groups, positions
EnterScheduler(arr, ch, multi, prelog, idx) ==
    LET groups == GroupByPosition(SortByPosition(arr))
    IN  /\ notes_array' = arr
        /\ channel_index' = ch
        /\ is_multi_channel' = multi
        /\ position_groups' = groups
        /\ positions' = SortedKeys(DOMAIN groups)
        /\ gi' = 1
        /\ seconds_to_wait' = 0
        /\ visited' = <<>>
        /\ calls' = calls + 1
        /\ exception' = "none"
        /\ pc' = "group"
        /\ in_handler' = TRUE
        /\ current_pattern_index' = idx
        /\ log' = prelog
        /\ UNCHANGED hostState

\* a handler branch that calls nothing
NoCall == UNCHANGED <<schedVars, hostVars>>

\* get_next_pattern_number
NextPatternNumber ==
    IF current_pattern_index >= pattern_count THEN pattern_count - 1
    ELSE current_pattern_index

\* avg_length = sum(note[2] ...) / len(notes_array) is 0, and 1/avg_length
\* raises, exactly when no note has a length above 0
AvgLengthIsZero(arr) == \A i \in 1..Len(arr) : arr[i][3] = 0

\* record_notes_batch(notes_array, channel_index[, pattern_type]) up to its loop.
\* bebop_controller divides by the average length for the pattern name, then
\* switches to a new pattern; device_test takes no channel and checks nothing.
CallRecordNotesBatch(arr, ch) ==
    IF script = "device_test"
    THEN EnterScheduler(arr, ch, FALSE, <<>>, current_pattern_index)
    ELSE IF arr = <<>>
    THEN NoCall
    ELSE IF script = "bebop_script"
    THEN EnterScheduler(arr, ch, FALSE, <<Cmd("selectOneChannel", ch, 0, 0)>>,
                        current_pattern_index)
    ELSE IF AvgLengthIsZero(arr)
    THEN /\ exception' = "ZeroDivisionError"
         /\ UNCHANGED <<pc, in_handler, current_pattern_index, notes_array,
                        channel_index, is_multi_channel, positions,
                        position_groups, gi, seconds_to_wait, visited, calls>>
         /\ UNCHANGED hostVars
    ELSE EnterScheduler(arr, ch, FALSE,
                        <<Cmd("jumpToPattern", NextPatternNumber, 0, 0),
                          Cmd("selectOneChannel", ch, 0, 0)>>,
                        NextPatternNumber + 1)

\* all_notes of record_melody_and_chords: every note with its channel
TagChannel(arr, ch) == [i \in 1..Len(arr) |-> Append(arr[i], ch)]

\* a combined recording that starts when either batch has notes
CallRecordMelodyAndChordsEither ==
    IF solo_notes = <<>> /\ chord_notes = <<>>
    THEN NoCall
    ELSE EnterScheduler(TagChannel(solo_notes, MELODY_CHANNEL)
                            \o TagChannel(chord_notes, CHORD_CHANNEL),
                        channel_index, TRUE,
                        IF script = "bebop_controller"
                        THEN <<Cmd("jumpToPattern", NextPatternNumber, 0, 0)>>
                        ELSE <<>>,
                        IF script = "bebop_controller"
                        THEN NextPatternNumber + 1 ELSE current_pattern_index)

CallRecordMelodyAndChords ==
    IF solo_notes = <<>> \/ chord_notes = <<>>
    THEN NoCall
    ELSE EnterScheduler(TagChannel(solo_notes, MELODY_CHANNEL)
                            \o TagChannel(chord_notes, CHORD_CHANNEL),
                        channel_index, TRUE,
                        IF script = "bebop_controller"
                        THEN <<Cmd("jumpToPattern", NextPatternNumber, 0, 0)>>
                        ELSE <<>>,
                        IF script = "bebop_controller"
                        THEN NextPatternNumber + 1 ELSE current_pattern_index)

\* one pass of the loop body up to the sleep: stop if playing, move the
\* playhead, record on, start, note-ons, tempo, the wait
GroupStart ==
    /\ UNCHANGED <<rcvVars, encVars>>
    /\ pc = "group"
    /\ gi <= Len(positions)
    /\ LET position == positions[gi]
           g == position_groups[position]
           ticks == PositionTicks(position)
       IN  /\ log' = log \o StartCommands(g, ticks)
           /\ visited' = Append(visited, <<position, g>>)
           /\ song_pos' = ticks
           /\ recording' = TRUE
           /\ playing' = TRUE
           /\ IF CurrentTempo = 0
              THEN /\ exception' = "ZeroDivisionError"
                   /\ pc' = "ready"
                   /\ in_handler' = FALSE
                   /\ UNCHANGED seconds_to_wait
              ELSE /\ seconds_to_wait' = SecondsToWait(MaxLength(g), CurrentTempo)
                   /\ pc' = "sleep"
                   /\ UNCHANGED <<exception, in_handler>>
    /\ UNCHANGED <<current_pattern_index, notes_array, channel_index,
                   is_multi_channel, positions, position_groups, gi, calls>>
    /\ UNCHANGED <<mixer_available, host_tempo, ppq, selected_channel, pattern_count>>

\* time.sleep(seconds_to_wait) returns; note-offs, stop, record off
GroupEnd ==
    /\ UNCHANGED <<rcvVars, encVars>>
    /\ pc = "sleep"
    /\ log' = log \o EndCommands(position_groups[positions[gi]])
    /\ playing' = FALSE
    /\ recording' = FALSE
    /\ pc' = "settle"
    /\ UNCHANGED <<current_pattern_index, notes_array, channel_index,
                   is_multi_channel, positions, position_groups, gi,
                   seconds_to_wait, visited, calls, exception, in_handler>>
    /\ UNCHANGED <<song_pos, mixer_available, host_tempo, ppq, selected_channel,
                   pattern_count>>

\* time.sleep(0.2) returns; on to the next position
Settle ==
    /\ UNCHANGED <<rcvVars, encVars>>
    /\ pc = "settle"
    /\ log' = Append(log, Cmd("sleep", SETTLE_MS, 0, 0))
    /\ gi' = gi + 1
    /\ pc' = "group"
    /\ UNCHANGED <<current_pattern_index, notes_array, channel_index,
                   is_multi_channel, positions, position_groups,
                   seconds_to_wait, visited, calls, exception, in_handler>>
    /\ UNCHANGED hostState

\* after the loop: device_test.py moves the playhead to 0; every script returns,
\* and so does the OnMidiMsg call that ran the scheduler
SchedulerReturn ==
    /\ UNCHANGED <<rcvVars, encVars>>
    /\ pc = "group"
    /\ gi > Len(positions)
    /\ IF script = "device_test"
       THEN /\ log' = Append(log, Cmd("setSongPos", 0, 2, 0))
            /\ song_pos' = 0
       ELSE UNCHANGED <<log, song_pos>>
    /\ pc' = "ready"
    /\ in_handler' = FALSE
    /\ UNCHANGED <<current_pattern_index, notes_array, channel_index,
                   is_multi_channel, positions, position_groups, gi,
                   seconds_to_wait, visited, calls, exception>>
    /\ UNCHANGED <<playing, recording, mixer_available, host_tempo, ppq,
                   selected_channel, pattern_count>>

(***************************************************************************)
(* Receivers: OnMidiMsg of device_test.py and of bebop_controller.py.      *)
(* Only note-on messages with velocity > 0 reach the code modelled here;   *)
(* the note-off every send_midi_note adds fails the status test.           *)
(***************************************************************************)
IDLE   == 0
MELODY == 1
CHORDS == 2

\* a decode that takes the whole beats and leaves out the decimal digits
DecodeLastWholeOnly(data) ==
    LET i == Len(data) - 6
    IN  <<data[i + 1], data[i + 2], 100 * data[i + 3], 100 * data[i + 5]>>

\* the note decoded from the last six values of the buffer:
\* length = length_whole + (length_decimal / 10.0), position likewise
DecodeLast(data) ==
    LET i == Len(data) - 6
    IN  <<data[i + 1], data[i + 2],
          100 * data[i + 3] + 10 * data[i + 4],
          100 * data[i + 5] + 10 * data[i + 6]>>

\* a test that decodes on every value from the sixth on
NoteCompleteEveryValue(data) == Len(data) >= 6

\* a note is complete every sixth value
NoteComplete(data) == Len(data) >= 6 /\ Len(data) % 6 = 0

\* a start test that does not look at receiving_mode
StartsSessionAnyTime(v) == v = 0

\* a start test that also takes note 1, the chord start of bebop_controller.py
StartsSessionOnOne(v) == v \in {0, 1} /\ ~receiving_mode

\* the test that opens a session in device_test.py
StartsSession(v) == v = 0 /\ ~receiving_mode

\* a session start that keeps the buffer of the session before
BeginSessionKeepBuffer ==
    /\ receiving_mode' = TRUE
    /\ UNCHANGED midi_data
    /\ note_count' = 0
    /\ values_received' = 0
    /\ midi_notes_array' = <<>>

\* a session start that keeps the notes of the session before
BeginSessionKeepNotes ==
    /\ receiving_mode' = TRUE
    /\ midi_data' = <<>>
    /\ note_count' = 0
    /\ values_received' = 0
    /\ UNCHANGED midi_notes_array

\* the start of a session in device_test.py: receiving mode on, all cleared
BeginSession ==
    /\ receiving_mode' = TRUE
    /\ midi_data' = <<>>
    /\ note_count' = 0
    /\ values_received' = 0
    /\ midi_notes_array' = <<>>

\* an end test that needs a value in the buffer
EndsSessionWithData(v) == v = END_SENTINEL /\ midi_data /= <<>>

\* an end test that takes 127 as the end only between two notes
EndsSessionBetweenNotes(v) == v = END_SENTINEL /\ Len(midi_data) % 6 = 0

\* the test that ends a session: note 127, once the count is in
EndsSession(v) == v = END_SENTINEL

\* the test that takes a symbol as the count
AwaitsCount == note_count = 0

\* a test that ends the session one note late
CountExceeded(arr) == Len(arr) > note_count

\* the test that ends a session when the expected notes are in
CountReached(arr) == Len(arr) >= note_count

DeviceTestOnMidiMsg(v) ==
    /\ script = "device_test"
    /\ pc = "ready"
    /\ note_value' = v
    /\ fed' = Append(fed, v)
    /\ UNCHANGED <<script, receive_mode, solo_notes, chord_notes,
                   changing_setting, setting_type, settings, has_generator>>
    /\ IF StartsSession(v)
       THEN /\ BeginSession
            /\ NoCall
       ELSE IF ~receiving_mode
       THEN /\ UNCHANGED <<receiving_mode, midi_data, note_count,
                           values_received, midi_notes_array>>
            /\ NoCall
       ELSE IF AwaitsCount
       THEN /\ note_count' = v
            /\ UNCHANGED <<receiving_mode, midi_data, values_received,
                           midi_notes_array>>
            /\ NoCall
       ELSE IF EndsSession(v)
       THEN /\ receiving_mode' = FALSE
            /\ UNCHANGED <<midi_data, note_count, values_received,
                           midi_notes_array>>
            /\ IF midi_notes_array /= <<>>
               THEN CallRecordNotesBatch(midi_notes_array, selected_channel)
               ELSE NoCall
       ELSE LET data == Append(midi_data, v)
                arr  == IF NoteComplete(data)
                        THEN Append(midi_notes_array, DecodeLast(data))
                        ELSE midi_notes_array
                done == NoteComplete(data) /\ CountReached(arr)
            IN  /\ midi_data' = data
                /\ values_received' = values_received + 1
                /\ midi_notes_array' = arr
                /\ note_count' = note_count
                /\ receiving_mode' = ~done
                /\ IF done
                   THEN CallRecordNotesBatch(arr, selected_channel)
                   ELSE NoCall

\* what generate_bebop_data may store: the generator's solo and chord notes
GeneratedBatches ==
    { <<<<60, 100, 50, 0>>, <<62, 90, 50, 50>>>>,
      <<<<48, 80, 200, 0>>, <<52, 80, 200, 0>>>> }

\* the receiver state a handler branch leaves alone
KeepSession == UNCHANGED <<receive_mode, note_count, values_received, midi_data>>
KeepNotes   == UNCHANGED <<solo_notes, chord_notes>>
KeepSetting == UNCHANGED <<changing_setting, setting_type, settings>>

\* note_value / 127.0, in units of 1/1270 (0.7 is 889, 0.5 is 635)
Complexity(v) == 10 * v

\* a setting change that is over after the first complexity value
ChangeSettingOneValue(v) ==
    /\ CASE setting_type = "root_note" ->
              settings' = [settings EXCEPT !.root_note = v]
         [] setting_type = "tempo" ->
              settings' = [settings EXCEPT !.tempo = v * 2]
         [] setting_type = "solo_complexity" ->
              settings' = [settings EXCEPT !.solo_complexity = Complexity(v)]
         [] setting_type = "chord_complexity" ->
              settings' = [settings EXCEPT !.chord_complexity = Complexity(v)]
         [] OTHER -> UNCHANGED settings
    /\ changing_setting' = FALSE
    /\ UNCHANGED setting_type
    /\ KeepSession
    /\ KeepNotes
    /\ NoCall

\* the branch taken while a setting change is pending
ChangeSetting(v) ==
    /\ CASE setting_type = "root_note" ->
              /\ settings' = [settings EXCEPT !.root_note = v]
              /\ changing_setting' = FALSE
              /\ UNCHANGED setting_type
         [] setting_type = "tempo" ->
              /\ settings' = [settings EXCEPT !.tempo = v * 2]
              /\ changing_setting' = FALSE
              /\ UNCHANGED setting_type
         [] setting_type = "solo_complexity" ->
              /\ settings' = [settings EXCEPT !.solo_complexity = Complexity(v)]
              /\ setting_type' = "chord_complexity"
              /\ UNCHANGED changing_setting
         [] setting_type = "chord_complexity" ->
              /\ settings' = [settings EXCEPT !.chord_complexity = Complexity(v)]
              /\ changing_setting' = FALSE
              /\ UNCHANGED setting_type
         [] OTHER -> KeepSetting
    /\ KeepSession
    /\ KeepNotes
    /\ NoCall

\* control notes tested without a look at the receive mode
IsCommandInAnyMode(v) ==
    \/ v \in {0, 1, 2, 3, 4, 5, 10, 11, 12, 20, 21, 22, 30}
    \/ v = 6 /\ has_generator

\* the control notes, all tested with receive_mode == ReceiveMode.IDLE
IsCommand(v) ==
    /\ receive_mode = IDLE
    /\ \/ v \in {0, 1, 2, 3, 4, 5, 10, 11, 12, 20, 21, 22, 30}
       \/ v = 6 /\ has_generator

Command(v) ==
    CASE v \in {0, 1} ->
           /\ receive_mode' = IF v = 0 THEN MELODY ELSE CHORDS
           /\ midi_data' = <<>>
           /\ note_count' = 0
           /\ values_received' = 0
           /\ solo_notes' = IF v = 0 THEN <<>> ELSE solo_notes
           /\ chord_notes' = IF v = 1 THEN <<>> ELSE chord_notes
           /\ KeepSetting
           /\ NoCall
      [] v \in {2, 12} ->
           /\ KeepSession /\ KeepNotes /\ KeepSetting
           /\ CallRecordMelodyAndChords
      [] v \in {3, 10} ->
           /\ KeepSession /\ KeepNotes /\ KeepSetting
           /\ CallRecordNotesBatch(solo_notes, MELODY_CHANNEL)
      [] v \in {4, 11} ->
           /\ KeepSession /\ KeepNotes /\ KeepSetting
           /\ CallRecordNotesBatch(chord_notes, CHORD_CHANNEL)
      [] v = 5 ->
           /\ solo_notes' = <<>>
           /\ chord_notes' = <<>>
           /\ KeepSession /\ KeepSetting
           /\ NoCall
      [] v = 6 ->
           /\ \E so \in GeneratedBatches, ch \in GeneratedBatches :
                 solo_notes' = so /\ chord_notes' = ch
           /\ KeepSession /\ KeepSetting
           /\ NoCall
      [] v \in {20, 21, 22} ->
           /\ changing_setting' = TRUE
           /\ setting_type' = IF v = 20 THEN "root_note"
                              ELSE IF v = 21 THEN "tempo" ELSE "solo_complexity"
           /\ UNCHANGED settings
           /\ KeepSession /\ KeepNotes
           /\ NoCall
      [] OTHER ->
           /\ KeepSession /\ KeepNotes /\ KeepSetting
           /\ NoCall

\* a test of the mode that takes every session for a melody session
ReceivesAnySession == receive_mode /= IDLE

\* receive_mode == ReceiveMode.MELODY: the decoded note goes to solo_notes
ReceivesMelody == receive_mode = MELODY

\* the session part of bebop_controller's OnMidiMsg
SessionSymbol(v) ==
    IF receive_mode = IDLE
    THEN KeepSession /\ KeepNotes /\ NoCall
    ELSE IF AwaitsCount
    THEN /\ note_count' = v
         /\ UNCHANGED <<receive_mode, values_received, midi_data>>
         /\ KeepNotes
         /\ NoCall
    ELSE IF EndsSession(v)
    THEN /\ receive_mode' = IDLE
         /\ UNCHANGED <<note_count, values_received, midi_data>>
         /\ KeepNotes
         /\ NoCall
    ELSE LET data == Append(midi_data, v)
             cur  == IF ReceivesMelody THEN solo_notes ELSE chord_notes
             arr  == IF NoteComplete(data) THEN Append(cur, DecodeLast(data)) ELSE cur
         IN  /\ midi_data' = data
             /\ values_received' = values_received + 1
             /\ note_count' = note_count
             /\ solo_notes' = IF ReceivesMelody THEN arr ELSE solo_notes
             /\ chord_notes' = IF ReceivesMelody THEN chord_notes ELSE arr
             /\ receive_mode' = IF NoteComplete(data) /\ CountReached(arr)
                                THEN IDLE ELSE receive_mode
             /\ NoCall

BebopControllerOnMidiMsg(v) ==
    /\ script = "bebop_controller"
    /\ pc = "ready"
    /\ note_value' = v
    /\ fed' = Append(fed, v)
    /\ UNCHANGED <<script, receiving_mode, midi_notes_array, has_generator>>
    /\ IF changing_setting
       THEN ChangeSetting(v)
       ELSE IF IsCommand(v)
       THEN Command(v)
       ELSE SessionSymbol(v) /\ KeepSetting

(***************************************************************************)
(* Initial states and specifications.                                      *)
(***************************************************************************)
\* the module-level state of a freshly loaded script
ReceiverInit ==
    /\ note_value = -1
    /\ fed = <<>>
    /\ note_count = 0
    /\ values_received = 0
    /\ midi_data = <<>>
    /\ receiving_mode = FALSE
    /\ midi_notes_array = <<>>
    /\ receive_mode = IDLE
    /\ solo_notes = <<>>
    /\ chord_notes = <<>>
    /\ changing_setting = FALSE
    /\ setting_type = ""
    /\ settings = [root_note |-> 60, tempo |-> 160,
                   solo_complexity |-> 889, chord_complexity |-> 635]
    /\ has_generator = TRUE

SchedulerInit ==
    /\ pc = "ready"
    /\ in_handler = FALSE
    /\ current_pattern_index = 1
    /\ notes_array = <<>>
    /\ channel_index = 0
    /\ is_multi_channel = FALSE
    /\ positions = <<>>
    /\ position_groups = <<>>
    /\ gi = 1
    /\ seconds_to_wait = 0
    /\ visited = <<>>
    /\ calls = 0
    /\ exception = "none"

\* a stopped host at 120 bpm
HostInit ==
    /\ playing = FALSE
    /\ recording = FALSE
    /\ song_pos = 0
    /\ mixer_available = TRUE
    /\ host_tempo = 120000
    /\ ppq = 96
    /\ selected_channel = 0
    /\ pattern_count = 8
    /\ log = <<>>

\* the real-time server has no monitor: midi_monitor = None
MonitorOff ==
    /\ midi_monitor = FALSE
    /\ monitoring = FALSE
    /\ current_notes = {}
    /\ last_chord = <<>>
    /\ last_change_time = 0
    /\ pending = <<>>
    /\ now = 0
    /\ mon_pc = "off"
    /\ mon_i = 0
    /\ tool_pc = "idle"
    /\ tool_i = 0
    /\ join_deadline = 0
    /\ keys = 0
    /\ callbacks = 0

\* no sender running
EncoderOff ==
    /\ encoder = "trigger"
    /\ notes_data = <<>>
    /\ enc_pc = "off"
    /\ notes = <<>>
    /\ enc_midi_data = <<>>
    /\ enc_i = 1
    /\ sent = <<>>
    /\ chan = <<>>
    /\ result = [ok |-> FALSE, notes |-> 0, values |-> 0]
    /\ MonitorOff

\* the scheduler's thread: the steps of a record_notes_batch call in progress
Scheduler ==
    \/ GroupStart
    \/ GroupEnd
    \/ Settle
    \/ SchedulerReturn

(* Free feed: any symbol of a small alphabet, one at a time, to a script.  *)
FeedAlphabet == {0, 1, 127}

FeedDeviceTest ==
    /\ Len(fed) < MaxFed
    /\ \E v \in FeedAlphabet : DeviceTestOnMidiMsg(v)
    /\ UNCHANGED encVars

FeedBebopController ==
    /\ Len(fed) < MaxFed
    /\ \E v \in FeedAlphabet : BebopControllerOnMidiMsg(v)
    /\ UNCHANGED encVars

Init ==
    /\ script \in {"device_test", "bebop_controller"}
    /\ ReceiverInit
    /\ SchedulerInit
    /\ HostInit
    /\ EncoderOff

Next ==
    \/ FeedDeviceTest
    \/ FeedBebopController
    \/ GroupStart
    \/ GroupEnd
    \/ Settle
    \/ SchedulerReturn

Spec == Init /\ [][Next]_vars

(* Round trip: a sender's symbols reach the script through the channel.    *)
LineA == <<60, 100, 100, 0>>
LineB == <<64, 90, 50, 150>>
LineC == <<1, 126, 12690, 12690>>
LineD == <<126, 1, 12700, 0>>
LineE == <<200, -5, 25, 130>>
LineF == <<300, 100, 30057, 12796>>
LineG == <<62, 80, 96, 5>>
LinePool == {LineA, LineB, LineC, LineD, LineE, LineF, LineG, <<>>}

RECURSIVE SeqsUpTo(_, _)
RECURSIVE StreamsUpTo(_)
SeqsUpTo(S, n) ==
    IF n = 0 THEN {<<>>}
    ELSE LET shorter == SeqsUpTo(S, n - 1)
         IN  shorter \cup {Append(q, x) : q \in shorter, x \in S}

\* batches at and over the protocol's limit of 127 notes
LongBatch(n) == [i \in 1..n |-> IF i % 2 = 1 THEN LineA ELSE LineB]
LongBatches == {LongBatch(n) : n \in {127, 128, 200}}

SenderInputs == SeqsUpTo(LinePool, MaxLines) \cup LongBatches

\* the script's OnMidiMsg takes the oldest symbol in flight
DeliverDeviceTest ==
    /\ chan /= <<>>
    /\ DeviceTestOnMidiMsg(Head(chan))
    /\ chan' = Tail(chan)
    /\ UNCHANGED <<liveVars, encoder, notes_data, enc_pc, notes, enc_midi_data, enc_i,
                   sent, result>>

DeliverBebopController ==
    /\ chan /= <<>>
    /\ BebopControllerOnMidiMsg(Head(chan))
    /\ chan' = Tail(chan)
    /\ UNCHANGED <<liveVars, encoder, notes_data, enc_pc, notes, enc_midi_data, enc_i,
                   sent, result>>

InitRT ==
    /\ script \in {"device_test", "bebop_controller"}
    /\ ReceiverInit
    /\ SchedulerInit
    /\ HostInit
    /\ encoder \in {"trigger", "live"}
    /\ notes_data \in SenderInputs
    /\ encoder = "live" => \A i \in 1..Len(notes_data) : Len(notes_data[i]) = 4
    /\ enc_pc = "call"
    /\ notes = <<>>
    /\ enc_midi_data = <<>>
    /\ enc_i = 1
    /\ sent = <<>>
    /\ chan = <<>>
    /\ result = [ok |-> FALSE, notes |-> 0, values |-> 0]
    /\ MonitorOff

NextRT ==
    \/ EncCall
    \/ EncSendStart
    \/ EncSendCount
    \/ EncSendValue
    \/ EncSendEnd
    \/ EncSendRecord
    \/ DeliverDeviceTest
    \/ DeliverBebopController
    \/ GroupStart
    \/ GroupEnd
    \/ Settle
    \/ SchedulerReturn

SpecRT == InitRT /\ [][NextRT]_vars

(* The scheduler alone: record_notes_batch applied to a batch.             *)
NoteA == <<60, 100, 100, 200>>
NoteB == <<64, 100, 100000, 50>>
NoteC == <<67, 90, 200, 200>>
NoteD == <<72, 80, 0, 100>>
NotePool == {NoteA, NoteB, NoteC, NoteD}

\* what mixer.getCurrentTempo() may return: 60 bpm, 120 bpm, or a tempo of 0
HostTempos == {0, 60000, 120000}

\* the batch of two notes at 0.0 and one at 1.0, and a note at 0.1 beat
ExampleBatch == <<<<60, 100, 100, 0>>, <<64, 100, 100, 0>>, <<67, 90, 200, 100>>>>
TenthBeatNote == <<65, 70, 50, 10>>
ExtraBatches == {ExampleBatch, <<TenthBeatNote>>}

SchedulerCall ==
    /\ pc = "call"
    /\ exception = "none"
    /\ CallRecordNotesBatch(notes_array, channel_index)
    /\ UNCHANGED <<rcvVars, encVars>>

InitSched ==
    /\ script \in {"device_test", "bebop_controller", "bebop_script"}
    /\ ReceiverInit
    /\ EncoderOff
    /\ pc = "call"
    /\ in_handler = TRUE
    /\ current_pattern_index = 1
    /\ notes_array \in (SeqsUpTo(NotePool, MaxBatch) \ {<<>>}) \cup ExtraBatches
    /\ channel_index \in {MELODY_CHANNEL, CHORD_CHANNEL}
    /\ is_multi_channel = FALSE
    /\ positions = <<>>
    /\ position_groups = <<>>
    /\ gi = 1
    /\ seconds_to_wait = 0
    /\ visited = <<>>
    /\ calls = 0
    /\ exception = "none"
    /\ playing \in BOOLEAN
    /\ recording \in BOOLEAN
    /\ song_pos = 0
    /\ mixer_available \in BOOLEAN
    /\ host_tempo \in HostTempos
    /\ ppq = 96
    /\ selected_channel = 0
    /\ pattern_count = 8
    /\ log = <<>>

NextSched ==
    \/ SchedulerCall
    \/ GroupStart
    \/ GroupEnd
    \/ Settle
    \/ SchedulerReturn

SpecSched == InitSched /\ [][NextSched]_vars

(* The controller script under the symbols of a few client calls: the      *)
(* tools of bebop_mcp_server.py, the control notes of bebop_controller.py, *)
(* and frames that carry a seventh, channel, symbol in every record.       *)
MelodyFrame       == <<0, 1, 60, 100, 1, 0, 0, 0, 127>>
ChordFrame        == <<1, 1, 48, 80, 2, 0, 0, 0, 127>>
TaggedMelodyFrame == <<0, 1, 60, 100, 1, 0, 0, 0, 0, 127>>
TaggedChordFrame  == <<1, 1, 48, 80, 2, 0, 0, 0, 1, 127>>
RecordMelody      == <<10>>
RecordChords      == <<11>>
RecordBoth        == <<12>>
ResetNotes        == <<5>>
GenerateBebop     == <<6>>
SetRootNote       == <<20, 62>>
SetTempoZero      == <<21, 0>>
SetComplexity     == <<22, 88, 63>>
PrintSettings     == <<30>>
\* send_melody with the notes (10, 5, 20.6, 22.3) and (12, 11, 30.4, 21.1):
\* the count and the values are the numbers of the control notes
ControlNumbersFrame ==
    <<0, 2, 10, 5, 20, 6, 22, 3, 12, 11, 30, 4, 21, 1, 127>>

SegmentPool ==
    {MelodyFrame, ChordFrame, TaggedMelodyFrame, TaggedChordFrame,
     RecordMelody, RecordChords, RecordBoth, ResetNotes, GenerateBebop,
     SetRootNote, SetTempoZero, SetComplexity, PrintSettings,
     ControlNumbersFrame}

\* the symbols of up to n client calls, in the order sent
StreamsUpTo(n) ==
    IF n = 0 THEN {<<>>}
    ELSE LET shorter == StreamsUpTo(n - 1)
         IN  shorter \cup {q \o x : q \in shorter, x \in SegmentPool}

InitBC ==
    /\ script = "bebop_controller"
    /\ ReceiverInit
    /\ SchedulerInit
    /\ playing = FALSE
    /\ recording = FALSE
    /\ song_pos = 0
    /\ mixer_available \in BOOLEAN
    /\ host_tempo = 120000
    /\ ppq = 96
    /\ selected_channel = 0
    /\ pattern_count = 8
    /\ log = <<>>
    /\ encoder = "trigger"
    /\ notes_data = <<>>
    /\ enc_pc = "off"
    /\ notes = <<>>
    /\ enc_midi_data = <<>>
    /\ enc_i = 1
    /\ sent = <<>>
    /\ chan \in StreamsUpTo(MaxSegments)
    /\ result = [ok |-> FALSE, notes |-> 0, values |-> 0]
    /\ MonitorOff

NextBC ==
    \/ DeliverBebopController
    \/ GroupStart
    \/ GroupEnd
    \/ Settle
    \/ SchedulerReturn

SpecBC == InitBC /\ [][NextBC]_vars

(* Record commands: bebop_controller.py with or without stored notes takes *)
(* session frames and the record notes 2, 3, 4, 10, 11 and 12.             *)
\* the most frames and record notes queued
MaxCommands == 2
RecordNotes == {<<2>>, <<3>>, <<4>>, RecordMelody, RecordChords, RecordBoth}
RecordPool == {MelodyFrame, ChordFrame} \cup RecordNotes
RECURSIVE CommandStreams(_)
\* the symbols of up to n calls, in the order sent
CommandStreams(n) ==
    IF n = 0 THEN {<<>>}
    ELSE LET shorter == CommandStreams(n - 1)
         IN  shorter \cup {q \o x : q \in shorter, x \in RecordPool}

InitRec ==
    /\ script = "bebop_controller"
    /\ note_value = -1
    /\ fed = <<>>
    /\ note_count = 0
    /\ values_received = 0
    /\ midi_data = <<>>
    /\ receiving_mode = FALSE
    /\ midi_notes_array = <<>>
    /\ receive_mode = IDLE
    /\ solo_notes \in {<<>>, <<<<60, 100, 100, 0>>>>}
    /\ chord_notes \in {<<>>, <<<<48, 80, 200, 0>>>>}
    /\ changing_setting = FALSE
    /\ setting_type = ""
    /\ settings = [root_note |-> 60, tempo |-> 160,
                   solo_complexity |-> 889, chord_complexity |-> 635]
    /\ has_generator = TRUE
    /\ SchedulerInit
    /\ HostInit
    /\ encoder = "trigger"
    /\ notes_data = <<>>
    /\ enc_pc = "off"
    /\ notes = <<>>
    /\ enc_midi_data = <<>>
    /\ enc_i = 1
    /\ sent = <<>>
    /\ chan \in CommandStreams(MaxCommands)
    /\ result = [ok |-> FALSE, notes |-> 0, values |-> 0]
    /\ MonitorOff

SpecRec == InitRec /\ [][NextBC]_vars

(***************************************************************************)
(* Properties of the protocol: framing, round trip, receiver sessions.     *)
(***************************************************************************)
\* the receiver is outside a session
Idle == IF script = "device_test" THEN ~receiving_mode ELSE receive_mode = IDLE

\* the receiver is in a session and has its count: it collects note values
Collecting == ~Idle /\ ~changing_setting /\ note_count /= 0

\* the receiver is in a session and takes the next symbol as the count
AwaitingCount == ~Idle /\ ~changing_setting /\ note_count = 0

\* this step is one OnMidiMsg call, on the symbol note_value'
HandlesSymbol == fed' = Append(fed, note_value')

\* the list the open session appends to, after the step
BatchAfter ==
    IF script = "device_test" THEN midi_notes_array'
    ELSE IF receive_mode = MELODY THEN solo_notes' ELSE chord_notes'

\* the records whose six values are all in the buffer, decoded one by one
DecodeAll(data) ==
    [k \in 1..(Len(data) \div VALUES_PER_NOTE) |->
        LET i == VALUES_PER_NOTE * (k - 1)
        IN  <<data[i + 1], data[i + 2],
              100 * data[i + 3] + 10 * data[i + 4],
              100 * data[i + 5] + 10 * data[i + 6]>>]

\* the encoder has returned, nothing is in flight, the script is at rest
Quiescent == enc_pc = "done" /\ chan = <<>> /\ pc = "ready"

\* a batch of 1..127 records, pitch and velocity in 1..126, length and
\* position non-negative multiples of 0.1 beat
RoundTripDomain(lines) ==
    /\ Len(lines) \in 1..127
    /\ \A i \in 1..Len(lines) :
          /\ Len(lines[i]) = 4
          /\ lines[i][1] \in 1..126
          /\ lines[i][2] \in 1..126
          /\ lines[i][3] >= 0 /\ lines[i][3] % 10 = 0
          /\ lines[i][4] >= 0 /\ lines[i][4] % 10 = 0

\* every length and position is below 127 beats
Below127Beats(lines) ==
    \A i \in 1..Len(lines) : lines[i][3] < 12700 /\ lines[i][4] < 12700

\* the receiver of device_test.py holds the batch the encoder was given
DecodedEqualsOriginal ==
    /\ ~receiving_mode
    /\ midi_notes_array = notes_data
    /\ notes_array = notes_data
    /\ calls = 1

\* C1 (as amended): for every batch of 1..127 records with pitch and velocity
\* in [1,126] and length and position multiples of 0.1 beat below 127 beats,
\* once trigger.send_melody has sent the batch and device_test.OnMidiMsg has
\* taken every symbol, the decoded batch equals the original, record by record
\* and in the same order.
C1_RoundTripBelow127 ==
    (/\ script = "device_test"
     /\ encoder = "trigger"
     /\ RoundTripDomain(notes_data)
     /\ Below127Beats(notes_data)
     /\ Quiescent) => DecodedEqualsOriginal

\* C1 reached: a batch of two different records has made the round trip
C1_RoundTripDone ==
    /\ script = "device_test"
    /\ encoder = "trigger"
    /\ RoundTripDomain(notes_data)
    /\ Below127Beats(notes_data)
    /\ Len(notes_data) = 2
    /\ notes_data[1] /= notes_data[2]
    /\ notes_data[2][3] % 100 /= 0
    /\ Quiescent
    /\ DecodedEqualsOriginal

\* C1 as stated: the same round trip for every length and position that is a
\* multiple of 0.1 beat, with no bound at 127 beats
C1_RoundTripAsStated ==
    (/\ script = "device_test"
     /\ encoder = "trigger"
     /\ RoundTripDomain(notes_data)
     /\ Quiescent) => DecodedEqualsOriginal

\* the symbols fed so far are START, a count c, c six-value tuples without an
\* END among them, and END
WellFormedFrame(f) ==
    /\ Len(f) >= 3
    /\ f[1] = START_SENTINEL
    /\ f[2] \in 0..127
    /\ Len(f) = VALUES_PER_NOTE * f[2] + 3
    /\ f[Len(f)] = END_SENTINEL
    /\ \A i \in 3..(Len(f) - 1) : f[i] \in 0..126

\* the batch of the session START(0) opens
MelodyBatch == IF script = "device_test" THEN midi_notes_array ELSE solo_notes

\* C2: for every COUNT in 0..127, a receiver that starts idle and is fed
\* START(0), COUNT, COUNT six-value tuples and END(127) ends idle with a
\* completed batch of exactly COUNT records.
C2_FrameCompletes ==
    (pc = "ready" /\ WellFormedFrame(fed)) =>
        (Idle /\ Len(MelodyBatch) = fed[2])

\* the symbols of a frame for the note list ns: START, COUNT, six symbols
\* for each of the first COUNT notes, END
FrameOf(ns) ==
    <<START_SENTINEL, CountSymbol(ns)>>
        \o BuildMidiData(SubSeq(ns, 1, CountSymbol(ns)))
        \o <<END_SENTINEL>>

\* what the encoder sent as the frame: send_to_fl_studio adds its record
\* command after the frame
SentFrame ==
    IF encoder = "live" /\ sent /= <<>> THEN SubSeq(sent, 1, Len(sent) - 1)
    ELSE sent

\* C3: for every non-empty batch the symbols the encoder sends are, in order
\* and with nothing between them, START(0), COUNT = min(127, batch length),
\* six symbols per record for COUNT records in batch order, and END(127).
C3_Framing ==
    (enc_pc = "done" /\ notes /= <<>>) => SentFrame = FrameOf(notes)

\* C4: encoding a batch of more than 127 records sends COUNT = 127, then
\* exactly the 127 * 6 symbols of the first 127 records, then END; no symbol
\* of record 128 or later is sent.
C4_Truncation ==
    (encoder = "trigger" /\ enc_pc = "done" /\ Len(notes) > 127) =>
        /\ Len(sent) = 2 + VALUES_PER_NOTE * 127 + 1
        /\ sent[2] = 127
        /\ SubSeq(sent, 3, Len(sent) - 1) = BuildMidiData(SubSeq(notes, 1, 127))
        /\ sent[Len(sent)] = END_SENTINEL

\* END arrives while the receiver collects
EndInCollecting == Collecting /\ HandlesSymbol /\ note_value' = END_SENTINEL

\* the receiver is idle after the step and the batch is exactly the complete
\* records of the buffer; device_test.py hands a non-empty batch on
PartialBatchKept ==
    /\ Idle'
    /\ exception' = "none"
    /\ midi_data' = midi_data
    /\ BatchAfter = DecodeAll(midi_data)
    /\ Len(BatchAfter) = Len(midi_data) \div VALUES_PER_NOTE
    /\ script = "device_test" =>
          IF BatchAfter = <<>> THEN calls' = calls
          ELSE calls' = calls + 1 /\ notes_array' = BatchAfter

\* C5: when END(127) arrives in Collecting before COUNT records are complete,
\* the receiver returns to idle, the batch is exactly the records whose six
\* symbols were all received, floor(n/6) of them for n data symbols, and the
\* 1..5 symbols of an incomplete tuple are dropped without error.
C5_EndBeforeCount == [][EndInCollecting => PartialBatchKept]_vars

\* C5 reached: START, COUNT = 127, seven data symbols, END: one record is
\* kept and the seventh symbol is dropped
C5_PartialTupleDropped ==
    /\ Len(fed) = 10
    /\ fed[1] = START_SENTINEL
    /\ fed[2] = 127
    /\ note_value = END_SENTINEL
    /\ Idle
    /\ Len(midi_data) = 7
    /\ Len(MelodyBatch) = 1
    /\ Len(MelodyBatch) < note_count

\* the data symbol of this step completes the record that reaches the count
CompletesCount ==
    /\ Collecting
    /\ HandlesSymbol
    /\ note_value' /= END_SENTINEL
    /\ (Len(midi_data) + 1) % VALUES_PER_NOTE = 0
    /\ (Len(midi_data) + 1) \div VALUES_PER_NOTE = note_count

\* the session is over after the step, with the batch of COUNT records;
\* device_test.py hands it to record_notes_batch in the same call
FlushedOnSameSymbol ==
    /\ Idle'
    /\ Len(BatchAfter) = note_count
    /\ BatchAfter = DecodeAll(midi_data')
    /\ script = "device_test" =>
          calls' = calls + 1 /\ notes_array' = BatchAfter

\* C6: in Collecting, as soon as the number of decoded records equals the
\* expected count, the receiver flushes the batch and returns to idle on that
\* same symbol, without waiting for END(127).
C6_CountReached == [][CompletesCount => FlushedOnSameSymbol]_vars

\* C6 reached: START, COUNT = 1 and six data symbols, no END yet
C6_IdleBeforeEnd ==
    /\ Len(fed) = 8
    /\ fed[1] = START_SENTINEL
    /\ fed[2] = 1
    /\ \A i \in 3..8 : fed[i] /= END_SENTINEL
    /\ Idle
    /\ note_count = 1
    /\ Len(MelodyBatch) = 1

\* C7: when the symbol received in AwaitingCount is 0, the receiver completes
\* with an empty batch and is idle immediately after that symbol.
C7_EmptyBatch ==
    [][(AwaitingCount /\ HandlesSymbol /\ note_value' = 0) =>
           (Idle' /\ BatchAfter = <<>>)]_vars

\* C8: the receiver never blocks: no OnMidiMsg call is held while the
\* scheduler plays a batch.
C8_ReceiverNeverBlocks ==
    ~(in_handler /\ script = "device_test" /\ pc \in {"group", "sleep", "settle"})

(***************************************************************************)
(* Properties of the scheduler.                                            *)
(***************************************************************************)
\* the records of the batch at position p, in batch order
RecordsAt(p) == SelectSeq(notes_array, LAMBDA n : n[4] = p)

\* C9: for any batch, the scheduler visits position groups in strictly
\* ascending order of position, whatever the order of records in the batch,
\* each group holds all records of the batch that share its position, and
\* when the loop has ended every position of the batch has been visited.
C9_SchedulerOrdering ==
    calls = 1 =>
        /\ \A k \in 1..(Len(visited) - 1) : visited[k][1] < visited[k + 1][1]
        /\ \A k \in 1..Len(visited) : visited[k][2] = RecordsAt(visited[k][1])
        /\ (pc = "ready" /\ exception = "none") =>
              {visited[k][1] : k \in 1..Len(visited)}
                  = {notes_array[i][4] : i \in 1..Len(notes_array)}

\* C9 reached: positions 2.0, 0.5, 2.0 were visited as 0.5 then 2.0, with two
\* records at 2.0
C9_UnsortedBatchPlayed ==
    /\ pc = "ready"
    /\ calls = 1
    /\ notes_array = <<NoteA, NoteB, NoteC>>
    /\ Len(visited) = 2
    /\ visited[1][1] = 50
    /\ visited[2] = <<200, <<NoteA, NoteC>>>>

\* C10: for every group and every tempo the scheduler blocks at most 30
\* seconds between the group's note-ons and note-offs.
C10_WaitClamp == seconds_to_wait <= MAX_WAIT_TIME * 1000

\* the last transport command of the call's log
TransportOps == {"setSongPos", "stop", "start", "record"}
LastTransportCommand ==
    LET idx == {i \in 1..Len(log) : log[i].op \in TransportOps}
    IN  log[CHOOSE i \in idx : \A j \in idx : j <= i]

\* the scheduler has returned from its one call
SchedulerReturned == calls = 1 /\ pc = "ready"

\* C11: if a host call fails while a group is processed (the tempo query
\* fails or returns an unusable tempo such as 0), the scheduler substitutes a
\* safe default and still processes that group and every remaining group:
\* when it returns, no exception has left it and the loop has passed every
\* position of the batch.
C11_FailureNeverAborts ==
    SchedulerReturned => (exception = "none" /\ gi > Len(positions))

\* C12: given more than 127 records the encoder raises no exception and its
\* return value reports that 127 records, not the full batch length, were
\* transmitted.
C12_ReturnReportsTruncation ==
    (encoder = "trigger" /\ enc_pc = "done" /\ Len(notes) > 127) =>
        (result.ok /\ result.notes = 127 /\ result.values = VALUES_PER_NOTE * 127)

\* C13: after the scheduler has processed all groups of a batch, its last
\* transport command moves the playhead to position 0, for every non-empty
\* batch and every scheduler entry point.
C13_PlayheadReturnsToZero ==
    (SchedulerReturned /\ exception = "none") =>
        (LastTransportCommand = Cmd("setSongPos", 0, 2, 0) /\ song_pos = 0)

\* a note-on that sounds a note, and the note-off for the same pitch and channel
IsPitchOn(c) == c.op = "midiNoteOn" /\ c.c > 0
IsPitchOffFor(c, on) == c.op = "midiNoteOn" /\ c.c = 0 /\ c.a = on.a /\ c.b = on.b

GroupSegment ==
    LET moves == {i \in 1..Len(log) : log[i].op = "setSongPos"}
        last  == CHOOSE i \in moves : \A j \in moves : j <= i
    IN  SubSeq(log, last, Len(log))

\* the place of a command in the order of a group: move, record on, start,
\* pitch-on, sleep, pitch-off, stop, record off
OrderRank(s, i) ==
    CASE s[i].op = "setSongPos" -> 1
      [] s[i].op = "record" ->
            IF \E j \in 1..(i - 1) : s[j].op = "stop" THEN 8 ELSE 2
      [] s[i].op = "start" -> 3
      [] s[i].op = "midiNoteOn" -> IF s[i].c > 0 THEN 4 ELSE 6
      [] s[i].op = "sleep" -> 5
      [] s[i].op = "stop" -> 7
      [] OTHER -> 0

CountRank(s, r) == Cardinality({i \in 1..Len(s) : OrderRank(s, i) = r})

\* C20: for every group the scheduler issues its commands in this order: move
\* the playhead to the group's tick, ensure recording is on, start, pitch-on
\* for every record of the group, block for the group's wait, pitch-off for
\* every record, stop, recording off, settle delay.
C20_GroupCommandOrder ==
    pc \in {"sleep", "settle"} =>
        LET s == GroupSegment
            g == position_groups[positions[gi]]
        IN  /\ s[1] = Cmd("setSongPos", PositionTicks(positions[gi]), 2, 0)
            /\ \A i \in 1..Len(s) : \A j \in (i + 1)..Len(s) :
                   OrderRank(s, i) <= OrderRank(s, j)
            /\ \A i \in 1..Len(s) : OrderRank(s, i) >= 1
            /\ CountRank(s, 1) = 1 /\ CountRank(s, 2) <= 1 /\ CountRank(s, 3) = 1
            /\ CountRank(s, 4) = Len(g)
            /\ pc = "sleep" =>
                   /\ recording /\ playing
                   /\ Len(s) = CountRank(s, 2) + 2 + Len(g)
            /\ pc = "settle" =>
                   /\ CountRank(s, 5) = 1
                   /\ \E i \in 1..Len(s) : s[i] = Cmd("sleep", seconds_to_wait, 0, 0)
                   /\ CountRank(s, 6) = Len(g)
                   /\ CountRank(s, 7) = 1
                   /\ CountRank(s, 8) = 1
                   /\ ~recording /\ ~playing

\* C20 reached: the second group, of two notes, is at its settle delay, with
\* all ten commands issued: move, record, start, two pitch-ons, sleep, two
\* pitch-offs, stop, record
C20_GroupAtSettle ==
    /\ pc = "settle"
    /\ gi = 2
    /\ Len(position_groups[positions[gi]]) = 2
    /\ Len(GroupSegment) = 10
    /\ ~recording

\* the list the open session appends to
CurrentBatch ==
    IF script = "device_test" THEN midi_notes_array
    ELSE IF receive_mode = MELODY THEN solo_notes ELSE chord_notes

\* C16 (as amended): a symbol 0 that arrives while the receiver collects, as
\* a note's pitch or in any other slot, is stored as data of the record: it
\* is appended to the buffer, the count is kept, and the batch is the decoded
\* buffer; only an idle receiver takes 0 as the start symbol.
C16_ZeroIsDataInSession ==
    [][(Collecting /\ HandlesSymbol /\ note_value' = 0) =>
           /\ midi_data' = Append(midi_data, 0)
           /\ note_count' = note_count
           /\ BatchAfter = DecodeAll(midi_data')]_vars

\* C16 reached: START, COUNT = 1 and a record whose pitch symbol is 0 gave a
\* batch of one record of pitch 0
C16_PitchZeroDecoded ==
    /\ Len(fed) = 8
    /\ fed[1] = START_SENTINEL
    /\ fed[2] = 1
    /\ fed[3] = 0
    /\ Idle
    /\ Len(MelodyBatch) = 1
    /\ MelodyBatch[1][1] = 0

\* C16 as stated: a symbol 0 that arrives as a note's pitch while a session
\* is in progress is consumed as the start symbol and is not stored as data.
C16_ZeroRestartsSession ==
    [][(Collecting /\ HandlesSymbol /\ note_value' = 0
          /\ Len(midi_data) % VALUES_PER_NOTE = 0) =>
           (AwaitingCount' /\ midi_data' = <<>>)]_vars

\* C17: in the device_test receiver any symbol other than 0 received while
\* idle is ignored: receiving mode, expected count, symbol buffer and decoded
\* records are unchanged and the scheduler is not invoked.
C17_IdleIgnores ==
    [][(script = "device_test" /\ ~receiving_mode /\ HandlesSymbol
          /\ note_value' /= 0) =>
           /\ UNCHANGED <<receiving_mode, note_count, values_received,
                           midi_data, midi_notes_array>>
           /\ UNCHANGED <<calls, pc, in_handler, notes_array, log>>]_vars

\* C17 reached: END arrives after the count has ended the session and the
\* scheduler has returned; the batch of one record is still there
C17_EndAfterCountIgnored ==
    /\ script = "device_test"
    /\ Len(fed) = 9
    /\ fed[1] = START_SENTINEL
    /\ fed[2] = 1
    /\ note_value = END_SENTINEL
    /\ ~receiving_mode
    /\ Len(midi_data) = 6
    /\ Len(midi_notes_array) = 1
    /\ calls = 1
    /\ pc = "ready"

\* the symbol opens a session: 0 in both scripts, 1 (chords) in
\* bebop_controller.py
IsStartSymbol(v) == v = 0 \/ (script = "bebop_controller" /\ v = 1)

\* C18: START received while idle moves the receiver to AwaitingCount and
\* clears the symbol buffer, the expected count and the batch in progress, so
\* that after any earlier sessions the batch of a session holds only records
\* decoded from symbols of that session.
C18_StartClears ==
    [][/\ (Idle /\ ~changing_setting /\ HandlesSymbol
             /\ IsStartSymbol(note_value')) =>
              /\ AwaitingCount'
              /\ midi_data' = <<>>
              /\ values_received' = 0
              /\ CurrentBatch' = <<>>
       /\ ~Idle' => CurrentBatch' = DecodeAll(midi_data')]_vars

\* C18 reached: a session of one record has ended by its count and a second
\* START has opened a session with nothing in it
C18_SecondSessionEmpty ==
    /\ Len(fed) = 9
    /\ fed[1] = START_SENTINEL
    /\ fed[2] = 1
    /\ \A i \in 3..8 : fed[i] /= END_SENTINEL
    /\ note_value = START_SENTINEL
    /\ AwaitingCount
    /\ midi_data = <<>>
    /\ CurrentBatch = <<>>

\* C19: in Collecting a symbol 127 ends the session whatever its offset in
\* the current six-value tuple: it is never appended to the buffer and the
\* record it belonged to is not decoded.
C19_EndAtAnyOffset ==
    [][(Collecting /\ HandlesSymbol /\ note_value' = END_SENTINEL) =>
           /\ Idle'
           /\ midi_data' = midi_data
           /\ values_received' = values_received
           /\ BatchAfter = CurrentBatch]_vars

\* C19 reached: 127 arrived in the whole-length slot of the first record,
\* after its pitch and velocity; the session is over with no record
C19_EndInLengthSlot ==
    /\ Len(fed) = 5
    /\ fed[1] = START_SENTINEL
    /\ fed[2] = 1
    /\ note_value = END_SENTINEL
    /\ Idle
    /\ Len(midi_data) = 2
    /\ MelodyBatch = <<>>

\* C15: in multi-channel mode the receiver consumes 7 symbols per record,
\* decodes a record only when 7 new symbols have arrived, and takes the
\* record's channel from the 7th symbol: after START, COUNT = 1 and six
\* symbols of a channel-tagged record no record is decoded yet, and after a
\* tagged melody frame, a tagged chord frame and the record-both command the
\* scheduler has played the two records on the channels their 7th symbols
\* carried.
C15_SevenSymbolRecords ==
    /\ fed = SubSeq(TaggedMelodyFrame, 1, 8) => (Collecting /\ solo_notes = <<>>)
    /\ (chan = <<>> /\ pc = "ready"
          /\ fed = TaggedMelodyFrame \o TaggedChordFrame \o RecordBoth) =>
           /\ calls = 1
           /\ is_multi_channel
           /\ notes_array = <<<<60, 100, 100, 0, 0>>, <<48, 80, 200, 0, 1>>>>

\* C21: at the end of a group the scheduler toggles recording off only if it
\* turned recording on itself at the start of that group: when the group
\* issued no record command before its start, recording was already active
\* and is still active after the group.
C21_RecordingLeftAsFound ==
    (pc = "settle" /\ CountRank(GroupSegment, 2) = 0) => recording

\* the commands this step adds to the log
NewCommands == SubSeq(log', Len(log) + 1, Len(log'))
AppendsCommands ==
    Len(log') > Len(log) /\ SubSeq(log', 1, Len(log)) = log

\* whether the transport plays when the k-th new command is issued: start
\* and stop set it, otherwise it is as the step found it
PlayingBefore(cmds, k) ==
    LET sets == {j \in 1..(k - 1) : cmds[j].op \in {"start", "stop"}}
    IN  IF sets = {} THEN playing
        ELSE cmds[CHOOSE j \in sets : \A i \in sets : i <= j].op = "start"

\* C22: the scheduler never moves the playhead while the transport is
\* playing: every playhead move is issued with the transport stopped, and a
\* stop is issued only when the transport is playing.
C22_NoMoveWhilePlaying ==
    [][AppendsCommands =>
          \A k \in 1..Len(NewCommands) :
             /\ NewCommands[k].op = "setSongPos" => ~PlayingBefore(NewCommands, k)
             /\ NewCommands[k].op = "stop" => PlayingBefore(NewCommands, k)]_vars

\* C22 reached: the transport was playing when the first group began and
\* was stopped right before the playhead move
C22_StoppedBeforeMove ==
    /\ pc = "sleep"
    /\ gi = 1
    /\ \E i \in 1..(Len(log) - 1) :
          /\ log[i].op = "stop"
          /\ log[i + 1].op = "setSongPos"
          /\ \A j \in 1..(i - 1) : log[j].op \notin TransportOps

\* how often x occurs in the sequence q
CountIn(q, x) == Cardinality({i \in 1..Len(q) : q[i] = x})

\* how often the record r occurs in the groups visited
CountVisited(r) ==
    Cardinality({ki \in (1..Len(visited)) \X (1..Len(notes_array)) :
                    /\ ki[2] <= Len(visited[ki[1]][2])
                    /\ visited[ki[1]][2][ki[2]] = r})

LongestAt(p) ==
    LET lens == {notes_array[i][3] : i \in {j \in 1..Len(notes_array) :
                                                notes_array[j][4] = p}}
    IN  CHOOSE m \in lens : \A x \in lens : x <= m
ExpectedWait(p) == (LongestAt(p) * 600) \div CurrentTempo

\* the sleeps of the call, in order
Sleeps == SelectSeq(log, LAMBDA c : c.op = "sleep")

\* a group wait and a settle delay for every position, in order
ExpectedSleeps ==
    [i \in 1..(2 * Len(positions)) |->
        IF i % 2 = 1
        THEN Cmd("sleep", ExpectedWait(positions[(i + 1) \div 2]), 0, 0)
        ELSE Cmd("sleep", SETTLE_MS, 0, 0)]

\* the wait of every group of the batch is within the 30 seconds
WaitsWithinLimit ==
    \A k \in 1..Len(positions) : ExpectedWait(positions[k]) <= MAX_WAIT_TIME * 1000

\* C24 (as amended): a group's wait is (longest length of the group) * 60 /
\* tempo, with the host's tempo when it is available, whenever that is at
\* most 30 seconds; the call then blocks for the sum of the group waits plus
\* one settle delay per group.
C24_GroupWaitWithinLimit ==
    (calls = 1 /\ exception = "none" /\ CurrentTempo /= 0 /\ WaitsWithinLimit) =>
        /\ pc = "sleep" => seconds_to_wait = ExpectedWait(positions[gi])
        /\ pc = "ready" => Sleeps = ExpectedSleeps

\* C24 reached: the example batch at 120 bpm has waited 0.5 s, settled,
\* waited 1.0 s and settled
C24_ExampleBatchPlayed ==
    /\ SchedulerReturned
    /\ notes_array = ExampleBatch
    /\ mixer_available
    /\ host_tempo = 120000
    /\ Sleeps = <<Cmd("sleep", 500, 0, 0), Cmd("sleep", SETTLE_MS, 0, 0),
                  Cmd("sleep", 1000, 0, 0), Cmd("sleep", SETTLE_MS, 0, 0)>>

\* C24 as stated: the wait is (longest length) * 60 / tempo for every group.
C24_GroupWait ==
    (calls = 1 /\ exception = "none" /\ CurrentTempo /= 0) =>
        /\ pc = "sleep" => seconds_to_wait = ExpectedWait(positions[gi])
        /\ pc = "ready" => Sleeps = ExpectedSleeps

\* C25: the tick the playhead is moved to for a group is the tick nearest to
\* position * ticks-per-beat.
C25_NearestTick ==
    pc = "sleep" => song_pos = PositionTicksNearest(positions[gi])

\* the places of sent that hold a length or position decimal digit
DecimalPlaces ==
    {i \in 3..Min(Len(sent), 2 + Len(enc_midi_data)) :
        (i - 2) % VALUES_PER_NOTE \in {4, 0}}

\* C26: every symbol the encoder emits is in 0..127 and the two decimal-digit
\* symbols of each record are in 0..9, for every record with non-negative
\* length and position, also with pitch or velocity outside 0..127 and with
\* lengths or positions of 127 beats or more.
C26_SymbolsInRange ==
    /\ \A i \in 1..Len(sent) : sent[i] \in 0..127
    /\ \A i \in DecimalPlaces : sent[i] \in 0..9

\* C26 reached: a record with pitch 300, length 300.57 and position 127.96
\* has been sent
C26_OutOfRangeRecordSent ==
    /\ encoder = "trigger"
    /\ enc_pc = "done"
    /\ notes_data = <<LineF>>
    /\ sent = <<0, 1, 127, 100, 127, 6, 127, 0, 127>>

Abs(x) == IF x < 0 THEN -x ELSE x

\* pitch and velocity in 1..126, length and position below 127 beats
QuantizationDomain(lines) ==
    /\ Len(lines) \in 1..127
    /\ \A i \in 1..Len(lines) :
          /\ Len(lines[i]) = 4
          /\ lines[i][1] \in 1..126
          /\ lines[i][2] \in 1..126
          /\ lines[i][3] \in 0..12699
          /\ lines[i][4] \in 0..12699

\* C27: for every length or position v with 0 <= v < 127 at 0.01-beat
\* resolution, the value device_test.OnMidiMsg decodes from the encoder's
\* whole and decimal symbols differs from v by less than 0.1 beat.
C27_QuantizationError ==
    (/\ script = "device_test"
     /\ encoder = "trigger"
     /\ QuantizationDomain(notes_data)
     /\ Quiescent) =>
        /\ Len(midi_notes_array) = Len(notes_data)
        /\ \A k \in 1..Len(notes_data) :
              /\ Abs(midi_notes_array[k][3] - notes_data[k][3]) < 10
              /\ Abs(midi_notes_array[k][4] - notes_data[k][4]) < 10

\* the batch whose records are tagged with the channel ch
BatchOfChannel(ch) == IF ch = MELODY_CHANNEL THEN solo_notes ELSE chord_notes

\* the pitch-ons and pitch-offs of the log on each channel are those of the
\* records of that channel's batch, one of each for every record
OwnChannels ==
    /\ \A i \in 1..Len(log) :
          log[i].op = "midiNoteOn" => log[i].a \in {MELODY_CHANNEL, CHORD_CHANNEL}
    /\ \A ch \in {MELODY_CHANNEL, CHORD_CHANNEL} :
          /\ \A i \in 1..Len(log) :
                (log[i].op = "midiNoteOn" /\ log[i].a = ch) =>
                    \E k \in 1..Len(BatchOfChannel(ch)) :
                        /\ BatchOfChannel(ch)[k][1] = log[i].b
                        /\ log[i].c \in {0, BatchOfChannel(ch)[k][2]}
          /\ \A k \in 1..Len(BatchOfChannel(ch)) :
                LET r == BatchOfChannel(ch)[k]
                IN  /\ CountIn(log, Cmd("midiNoteOn", ch, r[1], r[2]))
                          = Cardinality({j \in 1..Len(BatchOfChannel(ch)) :
                                /\ BatchOfChannel(ch)[j][1] = r[1]
                                /\ BatchOfChannel(ch)[j][2] = r[2]})
                    /\ CountIn(log, Cmd("midiNoteOn", ch, r[1], 0))
                          = Cardinality({j \in 1..Len(BatchOfChannel(ch)) :
                                BatchOfChannel(ch)[j][1] = r[1]})

\* C28: in multi-channel recording every record is sounded on its own tagged
\* channel: solo records on the melody channel 0, chord records on the chord
\* channel 1, each pitch-off on the channel of its pitch-on, also when a solo
\* and a chord record share a position.
C28_OwnChannel ==
    [][(/\ is_multi_channel
        /\ pc = "group"
        /\ pc' = "ready"
        /\ exception' = "none") => OwnChannels']_vars

\* C28 reached: a solo and a chord record at the same position have been
\* recorded together, each on its channel
C28_SharedPositionRecorded ==
    /\ is_multi_channel
    /\ pc = "ready"
    /\ exception = "none"
    /\ Len(visited) = 1
    /\ Len(visited[1][2]) = 2
    /\ CountIn(log, Cmd("midiNoteOn", MELODY_CHANNEL, 60, 100)) = 1
    /\ CountIn(log, Cmd("midiNoteOn", CHORD_CHANNEL, 48, 80)) = 1
    /\ CountIn(log, Cmd("midiNoteOn", MELODY_CHANNEL, 60, 0)) = 1
    /\ CountIn(log, Cmd("midiNoteOn", CHORD_CHANNEL, 48, 0)) = 1

\* a batch of any size, pitch and velocity in 1..126, length and position
\* below 127 beats
AnySizeDomain(lines) ==
    /\ Len(lines) >= 1
    /\ \A i \in 1..Len(lines) :
          /\ Len(lines[i]) = 4
          /\ lines[i][1] \in 1..126
          /\ lines[i][2] \in 1..126
          /\ lines[i][3] \in 0..12699
          /\ lines[i][4] \in 0..12699

\* C29: for a batch of any size, also of more than 127 records, with pitch
\* and velocity in [1,126] and length and position below 127, feeding
\* device_test.OnMidiMsg every symbol trigger.send_melody sends invokes the
\* scheduler exactly once and leaves the receiver idle after the last symbol.
C29_OneCallThenIdle ==
    (/\ script = "device_test"
     /\ encoder = "trigger"
     /\ AnySizeDomain(notes_data)
     /\ Quiescent) => (calls = 1 /\ ~receiving_mode)

\* the last two symbols device_test.OnMidiMsg has handled are both 127
TwoEndsHandled ==
    /\ script = "device_test"
    /\ Len(fed) >= 2
    /\ fed[Len(fed)] = END_SENTINEL
    /\ fed[Len(fed) - 1] = END_SENTINEL

\* C30: from every reachable state of the device_test receiver, idle,
\* awaiting the count or collecting with any buffer content, two consecutive
\* symbols 127 leave the receiver idle.
C30_Resynchronisation == TwoEndsHandled => ~receiving_mode

\* C30 reached: the first 127 was taken as the count of a session just
\* started and the second one ended that session
C30_CountThenEnd ==
    /\ TwoEndsHandled
    /\ fed = <<START_SENTINEL, END_SENTINEL, END_SENTINEL>>
    /\ note_count = 127
    /\ ~receiving_mode

\* C31: in every reachable state of the device_test receiver with a session
\* in progress, the number of decoded records is floor(buffer length / 6),
\* values_received is the buffer length, and once the count is set the number
\* of decoded records is strictly below the expected count.
C31_ReceiverInvariant ==
    (script = "device_test" /\ receiving_mode) =>
        /\ Len(midi_notes_array) = Len(midi_data) \div VALUES_PER_NOTE
        /\ values_received = Len(midi_data)
        /\ note_count /= 0 => Len(midi_notes_array) < note_count

\* C31 reached: a session holds one decoded record and one value of
\* the next record, with a count of 127
C31_SecondRecordBegun ==
    /\ script = "device_test"
    /\ receiving_mode
    /\ note_count = 127
    /\ Len(midi_notes_array) = 1
    /\ Len(midi_data) = 7
    /\ values_received = 7

\* bebop_controller's OnMidiMsg takes a symbol outside a setting change
DispatchesSymbol ==
    /\ script = "bebop_controller"
    /\ HandlesSymbol
    /\ ~changing_setting

\* the symbol opens a melody session, or arrives within one
InMelodySession ==
    /\ DispatchesSymbol
    /\ \/ receive_mode = IDLE /\ note_value' = 0
       \/ receive_mode = MELODY

\* the symbol opens a chord session, or arrives within one
InChordSession ==
    /\ DispatchesSymbol
    /\ \/ receive_mode = IDLE /\ note_value' = 1
       \/ receive_mode = CHORDS

\* C32: in bebop_controller a session opened with symbol 0 changes only
\* solo_notes and leaves chord_notes unchanged, and a session opened with
\* symbol 1 changes only chord_notes and leaves solo_notes unchanged, for
\* every symbol of the session.
C32_SessionFrame ==
    [][/\ InMelodySession => chord_notes' = chord_notes
       /\ InChordSession => solo_notes' = solo_notes]_vars

\* C32 reached: a chord session and then a melody session have each stored
\* their record, the chord record still there after the melody session
C32_ChordKeptAcrossMelody ==
    /\ script = "bebop_controller"
    /\ fed = ChordFrame \o MelodyFrame
    /\ chord_notes = <<<<48, 80, 200, 0>>>>
    /\ solo_notes = <<<<60, 100, 100, 0>>>>
    /\ receive_mode = IDLE

\* the numbers of the command notes of bebop_controller.py
CommandSymbols == {1, 2, 3, 4, 5, 6, 10, 11, 12, 20, 21, 22, 30}

\* the step runs a command: the scheduler is entered, stored notes are
\* dropped or replaced, a session opens or a setting change begins
CommandActs ==
    \/ calls' /= calls
    \/ pc' /= pc
    \/ Len(solo_notes') < Len(solo_notes)
    \/ Len(chord_notes') < Len(chord_notes)
    \/ receive_mode = IDLE /\ solo_notes' /= solo_notes
    \/ receive_mode = IDLE /\ chord_notes' /= chord_notes
    \/ receive_mode = IDLE /\ receive_mode' /= IDLE
    \/ ~changing_setting /\ changing_setting'

\* the symbol of the step is stored as the count or appended to the buffer
TakenAsCountOrData ==
    IF note_count = 0
    THEN note_count' = note_value' /\ midi_data' = midi_data
    ELSE note_count' = note_count /\ midi_data' = Append(midi_data, note_value')

\* C33: in bebop_controller the command symbols 1-6, 10-12, 20-22 and 30 are
\* acted on only when the receiver is idle and no setting change is
\* pending; while a session is in progress they are taken as count or record
\* data and run no command: no recording, no data reset, no settings change.
C33_CommandsOnlyWhenIdle ==
    [][(script = "bebop_controller" /\ HandlesSymbol) =>
          /\ CommandActs =>
                /\ receive_mode = IDLE
                /\ ~changing_setting
                /\ note_value' \in CommandSymbols \cup {START_SENTINEL}
          /\ (receive_mode /= IDLE /\ note_value' \in CommandSymbols) =>
                /\ ~CommandActs
                /\ settings' = settings
                /\ setting_type' = setting_type
                /\ TakenAsCountOrData]_vars

\* C33 reached: a melody session took 2 as its count and the numbers of the
\* other control notes as the values of two records, and ran nothing
C33_ControlNumbersStored ==
    /\ script = "bebop_controller"
    /\ fed = ControlNumbersFrame
    /\ solo_notes = <<<<10, 5, 2060, 2230>>, <<12, 11, 3040, 2110>>>>
    /\ chord_notes = <<>>
    /\ calls = 0
    /\ ~changing_setting
    /\ receive_mode = IDLE

\* the step leaves the session state, the stored notes and the scheduler alone
OnlySettingsTouched ==
    /\ receive_mode = IDLE
    /\ UNCHANGED <<receive_mode, note_count, values_received, midi_data,
                   solo_notes, chord_notes, calls, pc, log>>

\* C34: in bebop_controller the symbols after a settings command are consumed
\* as setting values and never as start, command or data symbols: exactly
\* one after 20 (root note) or 21 (tempo = value * 2), exactly two after 22
\* (solo, then chord complexity); after the last value the controller is
\* back in normal idle dispatch, and the receive mode stays idle throughout.
C34_SettingValues ==
    [][(script = "bebop_controller" /\ HandlesSymbol) =>
          /\ (~changing_setting /\ receive_mode = IDLE
                  /\ note_value' \in {20, 21, 22}) =>
                /\ OnlySettingsTouched
                /\ settings' = settings
                /\ changing_setting'
                /\ setting_type' = IF note_value' = 20 THEN "root_note"
                                   ELSE IF note_value' = 21 THEN "tempo"
                                   ELSE "solo_complexity"
          /\ (changing_setting /\ setting_type = "root_note") =>
                /\ OnlySettingsTouched
                /\ settings' = [settings EXCEPT !.root_note = note_value']
                /\ ~changing_setting'
          /\ (changing_setting /\ setting_type = "tempo") =>
                /\ OnlySettingsTouched
                /\ settings' = [settings EXCEPT !.tempo = 2 * note_value']
                /\ ~changing_setting'
          /\ (changing_setting /\ setting_type = "solo_complexity") =>
                /\ OnlySettingsTouched
                /\ settings' = [settings EXCEPT
                                   !.solo_complexity = Complexity(note_value')]
                /\ changing_setting'
                /\ setting_type' = "chord_complexity"
          /\ (changing_setting /\ setting_type = "chord_complexity") =>
                /\ OnlySettingsTouched
                /\ settings' = [settings EXCEPT
                                   !.chord_complexity = Complexity(note_value')]
                /\ ~changing_setting']_vars

\* C34 reached: two complexity values and a tempo value of 0 were consumed
\* as settings, and the melody frame after them was received as a session
C34_SettingsThenSession ==
    /\ script = "bebop_controller"
    /\ fed = SetComplexity \o SetTempoZero \o MelodyFrame
    /\ settings = [root_note |-> 60, tempo |-> 0,
                   solo_complexity |-> 880, chord_complexity |-> 630]
    /\ ~changing_setting
    /\ receive_mode = IDLE
    /\ solo_notes = <<<<60, 100, 100, 0>>>>

\* the step enters the scheduler
SchedulerInvoked == calls' /= calls \/ (pc = "ready" /\ pc' /= "ready")

\* C35: in bebop_controller completing a session, by count reached or by
\* END, never invokes the scheduler; the scheduler runs only on an explicit
\* record command received while idle, and only when the data it needs is
\* non-empty: solo for 3 and 10, chords for 4 and 11, both for 2 and 12.
C35_RecordOnlyOnCommand ==
    [][script = "bebop_controller" =>
          /\ (HandlesSymbol /\ receive_mode /= IDLE) => ~SchedulerInvoked
          /\ SchedulerInvoked =>
                /\ HandlesSymbol
                /\ receive_mode = IDLE
                /\ ~changing_setting
                /\ note_value' \in {2, 3, 4, 10, 11, 12}
                /\ note_value' \in {3, 10} =>
                      /\ solo_notes /= <<>>
                      /\ notes_array' = solo_notes
                      /\ ~is_multi_channel'
                /\ note_value' \in {4, 11} =>
                      /\ chord_notes /= <<>>
                      /\ notes_array' = chord_notes
                      /\ ~is_multi_channel'
                /\ note_value' \in {2, 12} =>
                      /\ solo_notes /= <<>>
                      /\ chord_notes /= <<>>
                      /\ is_multi_channel']_vars

\* C35 reached: a melody session ended by its count without a scheduler
\* call, and the record note 3 after it had the solo batch recorded
C35_RecordedOnNoteThree ==
    /\ script = "bebop_controller"
    /\ fed = MelodyFrame \o <<3>>
    /\ calls = 1
    /\ pc = "ready"
    /\ notes_array = <<<<60, 100, 100, 0>>>>
    /\ chord_notes = <<>>

\* the records the sender finds in its input
ValidRecords ==
    IF encoder = "live" THEN notes_data ELSE ParseNotes(notes_data)

\* nothing was sent, and the result of the call reports no valid notes
NothingSent ==
    /\ sent = <<>>
    /\ chan = <<>>
    /\ fed = <<>>
    /\ enc_pc = "done" => result = [ok |-> FALSE, notes |-> 0, values |-> 0]

MaxKeys == 3
\* the clock value after which the monitor loop is not followed further
MaxTime == 4000
\* the keys of the keyboard that are played
KeyNotes == {60, 64, 67}
CHORD_STABLE_MS == 500
LOOP_SLEEP_MS == 10
JOIN_TIMEOUT_MS == 1000
SEND_DURATION_MS == 10
\* passes of the monitor loop with nothing pending taken as one sleep
IdlePasses == 25

\* ChordRecognizer.chord_patterns, in the order of the dict
ChordPatterns ==
    << <<"maj", <<0, 4, 7>>>>, <<"min", <<0, 3, 7>>>>,
       <<"dom7", <<0, 4, 7, 10>>>>, <<"maj7", <<0, 4, 7, 11>>>>,
       <<"min7", <<0, 3, 7, 10>>>>, <<"min7b5", <<0, 3, 6, 10>>>>,
       <<"dim7", <<0, 3, 6, 9>>>>, <<"aug", <<0, 4, 8>>>>,
       <<"sus2", <<0, 2, 7>>>>, <<"sus4", <<0, 5, 7>>>>,
       <<"add9", <<0, 4, 7, 14>>>>, <<"dom9", <<0, 4, 7, 10, 14>>>>,
       <<"maj9", <<0, 4, 7, 11, 14>>>>, <<"min9", <<0, 3, 7, 10, 14>>>> >>

\* sorted(list(set)) for a set of integers
SortedList(S) ==
    [i \in 1..Cardinality(S) |->
        CHOOSE x \in S : Cardinality({y \in S : y < x}) = i - 1]

\* normalize_notes
NormalizeNotes(S) == {n % 12 : n \in S}

\* intervals of the normalized notes over a root, sorted
IntervalsOver(norm, root) == SortedList({(n - root + 12) % 12 : n \in norm})

\* pattern_matches
PatternMatches(intervals, pattern) ==
    /\ Len(intervals) >= Len(pattern)
    /\ \/ SubSeq(intervals, 1, Len(pattern)) = pattern
       \/ Len(pattern) >= 3 /\ SubSeq(intervals, 1, 3) = SubSeq(pattern, 1, 3)

\* recognize_chord: the name of the chord, <<root, type>>; <<>> is None
RecognizeChord(S) ==
    IF Cardinality(S) < 2 THEN <<>>
    ELSE LET norm  == NormalizeNotes(S)
             roots == SortedList(norm)
             hits  == {rk \in (1..Len(roots)) \X (1..Len(ChordPatterns)) :
                          PatternMatches(IntervalsOver(norm, roots[rk[1]]),
                                         ChordPatterns[rk[2]][2])}
         IN  IF hits = {}
             THEN <<roots[1], "?">>
             ELSE LET first == CHOOSE h \in hits :
                                  \A g \in hits :
                                     \/ h[1] < g[1]
                                     \/ h[1] = g[1] /\ h[2] <= g[2]
                  IN  <<roots[first[1]], ChordPatterns[first[2]][1]>>

\* a chord whose name repeats the last one is reported again
IsNewChordAlways(chord) == chord /= <<>>

\* chord and (not self.last_chord or chord['name'] != self.last_chord['name'])
IsNewChord(chord) ==
    chord /= <<>> /\ (last_chord = <<>> \/ chord /= last_chord)

\* (current_time - self.last_change_time) >= self.chord_stable_time
\* and len(self.current_notes) >= 2
ChordStable ==
    /\ now - last_change_time >= CHORD_STABLE_MS
    /\ Cardinality(current_notes) >= 2

\* what generate_solo_for_chord may return: notes of half a beat for two
\* measures (the callback) and notes of one beat for one measure (the tool)
CallbackSolo == [k \in 1..16 |-> <<60 + (k % 8), 90, 50, 50 * (k - 1)>>]
ManualSolo   == [k \in 1..4 |-> <<60 + (k % 8), 90, 100, 100 * (k - 1)>>]

\* the symbols send_to_fl_studio sends for a list of notes
LiveFrame(ns) ==
    <<START_SENTINEL, Min(127, Len(ns))>> \o BuildMidiData(ns)
        \o <<END_SENTINEL, RECORD_SOLO_NOTE>>

\* the milliseconds slept after the i-th symbol of the frame is sent:
\* _send_midi_note's own 0.01, 0.1 after START and COUNT, 0.01 after every
\* note, 0.2 between END and the record note
SleepAfterSymbol(ns, i) ==
    SEND_DURATION_MS
      + (IF i \in {1, 2} THEN 100
         ELSE IF i = Len(LiveFrame(ns)) - 1 THEN 200
         ELSE IF i < Len(LiveFrame(ns)) - 1 /\ (i - 2) % VALUES_PER_NOTE = 0
         THEN 10 ELSE 0)

\* current_notes after the pending messages are taken in order
NotesAfter(msgs) ==
    {n \in current_notes \cup {msgs[i][2] : i \in 1..Len(msgs)} :
        LET about == {i \in 1..Len(msgs) : msgs[i][2] = n}
        IN  IF about = {} THEN n \in current_notes
            ELSE msgs[CHOOSE i \in about : \A j \in about : j <= i][1] = "note_on"}

liveRest == <<rcvVars, schedVars, hostVars, senderVars>>

\* the keyboard sends a note-on or a note-off.  The thread sees a message
\* when its loop next takes the pending ones, so the message is put on the
\* port at that point.
KeyEvent ==
    /\ keys < MaxKeys
    /\ mon_pc = "loop"
    /\ \E t \in {"note_on", "note_off"}, n \in KeyNotes :
          pending' = Append(pending, <<t, n>>)
    /\ keys' = keys + 1
    /\ UNCHANGED <<midi_monitor, monitoring, current_notes, last_chord,
                   last_change_time, now, mon_pc, mon_i, tool_pc, tool_i,
                   join_deadline, callbacks>>
    /\ UNCHANGED liveRest

\* while self.monitoring: for msg in iter_pending(): _process_midi_message
MonProcess ==
    /\ mon_pc = "loop"
    /\ monitoring
    /\ current_notes' = NotesAfter(pending)
    /\ last_change_time' = IF pending = <<>> THEN last_change_time ELSE now
    /\ pending' = <<>>
    /\ mon_pc' = "check"
    /\ UNCHANGED <<midi_monitor, monitoring, last_chord, now, mon_i, tool_pc,
                   tool_i, join_deadline, keys, callbacks>>
    /\ UNCHANGED liveRest

\* while self.monitoring is false: the thread ends
MonExit ==
    /\ mon_pc = "loop"
    /\ ~monitoring
    /\ mon_pc' = "exited"
    /\ UNCHANGED <<midi_monitor, monitoring, current_notes, last_chord,
                   last_change_time, pending, now, mon_i, tool_pc, tool_i,
                   join_deadline, keys, callbacks>>
    /\ UNCHANGED liveRest

\* _check_chord_stability; the callback on_chord_detected generates a solo
\* and, if midi_monitor is set, starts send_to_fl_studio
MonCheck ==
    /\ mon_pc = "check"
    /\ LET chord == RecognizeChord(current_notes)
       IN  IF ChordStable /\ IsNewChord(chord)
           THEN /\ last_chord' = chord
                /\ callbacks' = callbacks + 1
                /\ mon_pc' = IF midi_monitor THEN "send" ELSE "sleep"
                /\ mon_i' = 0
           ELSE /\ mon_pc' = "sleep"
                /\ UNCHANGED <<last_chord, callbacks, mon_i>>
    /\ UNCHANGED <<midi_monitor, monitoring, current_notes, last_change_time,
                   pending, now, tool_pc, tool_i, join_deadline, keys>>
    /\ UNCHANGED liveRest

\* the callback's send_to_fl_studio sends its next symbol and sleeps
MonSend ==
    /\ mon_pc = "send"
    /\ mon_i' = mon_i + 1
    /\ now' = now + SleepAfterSymbol(CallbackSolo, mon_i + 1)
    /\ mon_pc' = IF mon_i + 1 = Len(LiveFrame(CallbackSolo)) THEN "sleep" ELSE "send"
    /\ UNCHANGED <<midi_monitor, monitoring, current_notes, last_chord,
                   last_change_time, pending, tool_pc, tool_i, join_deadline,
                   keys, callbacks>>
    /\ UNCHANGED liveRest

\* time.sleep(0.01) at the end of a pass of the loop
MonSleep ==
    /\ mon_pc = "sleep"
    /\ now < MaxTime
    /\ now' = now + LOOP_SLEEP_MS * IdlePasses
    /\ mon_pc' = "loop"
    /\ UNCHANGED <<midi_monitor, monitoring, current_notes, last_chord,
                   last_change_time, pending, mon_i, tool_pc, tool_i,
                   join_deadline, keys, callbacks>>
    /\ UNCHANGED liveRest

\* generate_solo_for_chord_manual up to its first send
ToolManual ==
    /\ tool_pc = "idle"
    /\ tool_i = 0
    /\ midi_monitor
    /\ tool_pc' = "send"
    /\ UNCHANGED <<midi_monitor, monitoring, current_notes, last_chord,
                   last_change_time, pending, now, mon_pc, mon_i, tool_i,
                   join_deadline, keys, callbacks>>
    /\ UNCHANGED liveRest

\* the tool's send_to_fl_studio sends its next symbol
ToolSend ==
    /\ tool_pc = "send"
    /\ tool_i' = tool_i + 1
    /\ tool_pc' = IF tool_i + 1 = Len(LiveFrame(ManualSolo)) THEN "idle" ELSE "send"
    /\ UNCHANGED <<midi_monitor, monitoring, current_notes, last_chord,
                   last_change_time, pending, now, mon_pc, mon_i,
                   join_deadline, keys, callbacks>>
    /\ UNCHANGED liveRest

\* stop_realtime_monitoring: stop_monitoring sets the flag and joins
ToolStop ==
    /\ tool_pc = "idle"
    /\ midi_monitor
    /\ monitoring' = FALSE
    /\ join_deadline' = now + JOIN_TIMEOUT_MS
    /\ tool_pc' = "join"
    /\ UNCHANGED <<midi_monitor, current_notes, last_chord, last_change_time,
                   pending, now, mon_pc, mon_i, tool_i, keys, callbacks>>
    /\ UNCHANGED liveRest

\* join(timeout=1.0) returns, the thread over or the second gone;
\* stop_realtime_monitoring then sets midi_monitor = None and returns
ToolJoinReturns ==
    /\ tool_pc = "join"
    /\ mon_pc = "exited" \/ now >= join_deadline
    /\ midi_monitor' = FALSE
    /\ tool_pc' = "idle"
    /\ UNCHANGED <<monitoring, current_notes, last_chord, last_change_time,
                   pending, now, mon_pc, mon_i, tool_i, join_deadline, keys,
                   callbacks>>
    /\ UNCHANGED liveRest

\* after start_realtime_monitoring: the monitor thread at the top of its loop
InitLive ==
    /\ script = "device_test"
    /\ ReceiverInit
    /\ SchedulerInit
    /\ HostInit
    /\ encoder = "live"
    /\ notes_data = <<>>
    /\ enc_pc = "off"
    /\ notes = <<>>
    /\ enc_midi_data = <<>>
    /\ enc_i = 1
    /\ sent = <<>>
    /\ chan = <<>>
    /\ result = [ok |-> FALSE, notes |-> 0, values |-> 0]
    /\ midi_monitor = TRUE
    /\ monitoring = TRUE
    /\ current_notes = {}
    /\ last_chord = <<>>
    /\ last_change_time = 0
    /\ pending = <<>>
    /\ now = 1000
    /\ mon_pc = "loop"
    /\ mon_i = 0
    /\ tool_pc = "idle"
    /\ tool_i = 0
    /\ join_deadline = 0
    /\ keys = 0
    /\ callbacks = 0

\* the monitor thread and the keyboard, no tool called
NextMonitor ==
    \/ KeyEvent
    \/ MonProcess
    \/ MonCheck
    \/ MonSend
    \/ MonSleep

SpecMonitor == InitLive /\ [][NextMonitor]_vars

\* two keys have been held for half a second
InitHeld ==
    /\ script = "device_test"
    /\ ReceiverInit
    /\ SchedulerInit
    /\ HostInit
    /\ encoder = "live"
    /\ notes_data = <<>>
    /\ enc_pc = "off"
    /\ notes = <<>>
    /\ enc_midi_data = <<>>
    /\ enc_i = 1
    /\ sent = <<>>
    /\ chan = <<>>
    /\ result = [ok |-> FALSE, notes |-> 0, values |-> 0]
    /\ midi_monitor = TRUE
    /\ monitoring = TRUE
    /\ current_notes = {60, 64}
    /\ last_chord = <<>>
    /\ last_change_time = 500
    /\ pending = <<>>
    /\ now = 1000
    /\ mon_pc = "loop"
    /\ mon_i = 0
    /\ tool_pc = "idle"
    /\ tool_i = 0
    /\ join_deadline = 0
    /\ keys = 2
    /\ callbacks = 0

\* the monitor thread and the thread of the tools
NextLive ==
    \/ MonProcess
    \/ MonExit
    \/ MonCheck
    \/ MonSend
    \/ MonSleep
    \/ ToolManual
    \/ ToolSend
    \/ ToolStop
    \/ ToolJoinReturns

SpecLive == InitHeld /\ [][NextLive]_vars

\* a thread puts a symbol on the output port in this step
MonSends  == mon_pc = "send" /\ mon_i' = mon_i + 1
ToolSends == tool_pc = "send" /\ tool_i' = tool_i + 1

\* a thread has sent the START of its frame and not yet its record note
MonMidFrame  == mon_pc = "send" /\ mon_i >= 1
ToolMidFrame == tool_pc = "send" /\ tool_i >= 1

\* C37: when a transmission started by the chord callback on the monitor
\* thread and one started by generate_solo_for_chord_manual run at the same
\* time, the symbols of one frame, START to END and the record note 10, are
\* never interleaved with symbols of the other frame on the output port.
C37_FramesNotInterleaved ==
    [][/\ MonSends => ~ToolMidFrame
       /\ ToolSends => ~MonMidFrame]_vars

\* the chord callback is invoked in this step
ChordReported == callbacks' = callbacks + 1

\* C38: the monitor invokes the chord callback only when at least 2 notes
\* are held, no note-on or note-off has been processed for at least 0.5 s
\* and the recognised chord's name differs from the last chord reported; a
\* chord that stays held is reported at most once, so every report after
\* the first needs a message from the keyboard.
C38_StableNewChordOnly ==
    [][ChordReported =>
          /\ Cardinality(current_notes) >= 2
          /\ now - last_change_time >= CHORD_STABLE_MS
          /\ RecognizeChord(current_notes) /= last_chord
          /\ last_chord' = RecognizeChord(current_notes)
          /\ callbacks' < keys]_vars

\* C38 reached: two keys were held and reported as one chord, a third key
\* made it C major, which was reported as the second chord
C38_SecondChordReported ==
    /\ callbacks = 2
    /\ keys = 3
    /\ current_notes = {60, 64, 67}
    /\ last_chord = <<0, "maj">>

\* C39: after stop_realtime_monitoring has returned, the monitor thread
\* sends no further symbol on the output port and invokes no further chord
\* callback, also when the stop is requested in the middle of a transmission.
C39_SilentAfterStop ==
    [][(~midi_monitor /\ tool_pc = "idle") =>
          /\ ~MonSends
          /\ ~ChordReported]_vars
====
